---- MODULE Spec2Model ----
(***************************************************************************)
(* A model of the someip-sd-wire codec: the packet envelope (packet.rs,    *)
(* repr.rs, field.rs), the 16-byte entries (entries.rs), the options       *)
(* (options.rs) and the configuration-string codec (config.rs).            *)
(*                                                                         *)
(* Bytes are the integers 0..255 and a buffer is a sequence of bytes;      *)
(* buffer index i of the source is element i+1 here.  A u32 or usize value *)
(* is kept as two 16-bit limbs (hi, lo), so that values up to 0xFFFFFFFF   *)
(* and their sums are exact.  Every result that the source can end with a  *)
(* panic (slice out of range, arithmetic overflow) carries a panic flag.   *)
(***************************************************************************)
EXTENDS Integers, Sequences, FiniteSets, TLC

VARIABLES
    build,        \* the target the crate is compiled for (usize width, overflow checks)
    buffer,       \* the bytes a Packet wraps
    pkt,          \* how the Packet was made: "none", "checked", "unchecked", "emitted"
    check_result, \* what Packet::new_checked returned
    last,         \* the last call on the Packet and what it returned
    repr_in,      \* the Repr given to Repr::emit
    entry,        \* a 16-byte entry view: its bytes, the Repr emitted, the last parse
    option,       \* an option buffer: its bytes, the Repr emitted, the last parse
    ser,          \* a ConfigurationOption::serialize call: entries, buffer, result
    iter,         \* a ConfigEntryIter: data, pos, and the items next() returned
    pure,         \* one call of a function without state: its argument and what it returned
    calls         \* the setter calls made on a view or a bit field so far, in order

vars == <<build, buffer, pkt, check_result, last, repr_in, entry, option, ser, iter, pure, calls>>

\* the parts of the codec a behaviour does not exercise stay as constructed
NoEntry ==
    [buf |-> <<>>, emitted |-> "none", input |-> <<>>, parsed |-> "none", result |-> <<>>,
     view |-> "none"]

NoOption ==
    [buf |-> <<>>, emitted |-> "none", input |-> <<>>,
     emit |-> [outcome |-> "none", buf |-> <<>>, high |-> 0, returned |-> 0],
     parsed |-> "none", result |-> <<>>]

NoSer ==
    [phase |-> "idle", entries |-> <<>>, buf |-> <<>>,
     result |-> [outcome |-> "none", buf |-> <<>>, pos |-> 0]]

NoIter == [phase |-> "idle", data |-> <<>>, pos |-> 0, items |-> <<>>]

NoPure == [kind |-> "none", arg |-> <<>>, fn |-> "none", ret |-> <<>>]

PacketIdle ==
    /\ build = "usize64"
    /\ buffer = <<>>
    /\ pkt = "none"
    /\ check_result = "none"
    /\ last = [op |-> "none"]
    /\ repr_in = <<>>

----------------------------------------------------------------------------
(* Bounds of the model. *)

\* the longest entries array of an input packet
MaxEntriesLen == 2

\* the longest options array of an input packet
MaxOptionsLen == 2

\* bytes that may follow the options array in an input buffer
MaxTrailing == 1

\* the most entries given to ConfigurationOption::serialize
MaxConfigEntries == 2

\* the longest small buffer given to ConfigurationOption::serialize
MaxSerBufLen == 8

\* the longest raw input given to ConfigurationOption::parse
MaxRawLen == 4

----------------------------------------------------------------------------
(* Integers of the source. *)

Limb == 256 * 256

\* a u32 / usize value n < 2^16 * Limb as two limbs
Num(n) == [panic |-> FALSE, hi |-> n \div Limb, lo |-> n % Limb]

\* the outcome of an operation that panicked
Panicked == [panic |-> TRUE, hi |-> 0, lo |-> 0]

NumLt(a, b) == a.hi < b.hi \/ (a.hi = b.hi /\ a.lo < b.lo)

\* builds of the crate: usize is 64 bits, or 32 bits with overflow checks
\* off (release: wraps) or on (debug: panics)
Builds == {"usize64", "usize32_wrapping", "usize32_checked"}

\* a + b in usize arithmetic on the current build
UsizeAdd(a, b) ==
    IF a.panic \/ b.panic THEN Panicked
    ELSE LET lo == a.lo + b.lo
             hi == a.hi + b.hi + (lo \div Limb)
         IN  IF hi < Limb \/ build = "usize64"
             THEN [panic |-> FALSE, hi |-> hi, lo |-> lo % Limb]
             ELSE IF build = "usize32_checked"
                  THEN Panicked
                  ELSE [panic |-> FALSE, hi |-> hi % Limb, lo |-> lo % Limb]

\* NetworkEndian::read_u32 of a 4-byte slice
read_u32(s) == [panic |-> FALSE, hi |-> s[1] * 256 + s[2], lo |-> s[3] * 256 + s[4]]

\* NetworkEndian::write_u32: the 4 bytes of a u32
write_u32(v) == <<v.hi \div 256, v.hi % 256, v.lo \div 256, v.lo % 256>>

\* &buf[range]: the slice, or a panic when the range is not inside buf
Slice(buf, range) ==
    IF range.start.panic \/ range.end.panic THEN [panic |-> TRUE, bytes |-> <<>>]
    ELSE IF NumLt(range.end, range.start) \/ NumLt(Num(Len(buf)), range.end)
         THEN [panic |-> TRUE, bytes |-> <<>>]
         ELSE [panic |-> FALSE,
               bytes |-> SubSeq(buf, range.start.lo + 1, range.end.lo)]

\* buf with the bytes of range replaced by src (copy_from_slice / write_u32
\* into &mut buf[range]); a panic when the range is not inside buf or the
\* lengths differ
Patch(buf, range, src) ==
    LET s == Slice(buf, range)
    IN  IF s.panic \/ Len(s.bytes) # Len(src) THEN [panic |-> TRUE, buf |-> buf]
        ELSE [panic |-> FALSE,
              buf |-> [i \in 1..Len(buf) |->
                         IF i > range.start.lo /\ i <= range.end.lo
                         THEN src[i - range.start.lo] ELSE buf[i]]]

----------------------------------------------------------------------------
(* field.rs: the layout of the packet. *)

FLAGS == [start |-> Num(0), end |-> Num(1)]

RESERVED == [start |-> Num(1), end |-> Num(4)]

LENGTH == [start |-> Num(4), end |-> Num(8)]

MIN_HEADER_LEN == LENGTH.end.lo

ENTRIES_ARRAY_shifted(length) ==
    [start |-> Num(7), end |-> UsizeAdd(Num(7), length)]

ENTRIES_ARRAY(length) ==
    [start |-> Num(8), end |-> UsizeAdd(Num(8), length)]

OPTIONS_LENGTH(entries_len) ==
    LET start == ENTRIES_ARRAY(entries_len).end
    IN  [start |-> start, end |-> UsizeAdd(start, Num(4))]

OPTIONS_ARRAY(entries_len, options_len) ==
    LET start == OPTIONS_LENGTH(entries_len).end
    IN  [start |-> start, end |-> UsizeAdd(start, options_len)]

----------------------------------------------------------------------------
(* packet.rs: the read accessors.  Each returns [panic, num, bytes]: num   *)
(* for the integer accessors, bytes for the array accessors.               *)

Val(n) == [panic |-> n.panic, num |-> n, bytes |-> <<>>]

Bytes(s) == [panic |-> s.panic, num |-> Num(0), bytes |-> s.bytes]

flags(buf) ==
    IF Len(buf) < 1 THEN Val(Panicked) ELSE Val(Num(buf[1]))

reserved(buf) ==
    LET s == Slice(buf, RESERVED)
    IN  IF s.panic THEN Val(Panicked)
        ELSE Val([panic |-> FALSE, hi |-> s.bytes[1],
                  lo |-> s.bytes[2] * 256 + s.bytes[3]])

entries_length(buf) ==
    LET s == Slice(buf, LENGTH)
    IN  IF s.panic THEN Val(Panicked) ELSE Val(read_u32(s.bytes))

entries_array(buf) ==
    LET len == entries_length(buf)
    IN  IF len.panic THEN Bytes([panic |-> TRUE, bytes |-> <<>>])
        ELSE Bytes(Slice(buf, ENTRIES_ARRAY(len.num)))

options_length(buf) ==
    LET entries_len == entries_length(buf)
    IN  IF entries_len.panic THEN Val(Panicked)
        ELSE LET s == Slice(buf, OPTIONS_LENGTH(entries_len.num))
             IN  IF s.panic THEN Val(Panicked) ELSE Val(read_u32(s.bytes))

options_array(buf) ==
    LET entries_len == entries_length(buf)
        options_len == IF entries_len.panic THEN Val(Panicked) ELSE options_length(buf)
    IN  IF options_len.panic THEN Bytes([panic |-> TRUE, bytes |-> <<>>])
        ELSE Bytes(Slice(buf, OPTIONS_ARRAY(entries_len.num, options_len.num)))

total_length(buf) ==
    LET entries_len == entries_length(buf)
        options_len == IF entries_len.panic THEN Val(Panicked) ELSE options_length(buf)
    IN  IF options_len.panic THEN Val(Panicked)
        ELSE Val(OPTIONS_ARRAY(entries_len.num, options_len.num).end)

\* Packet::check_len: "Ok", "BufferTooShort", or "Panic"
check_len(buf) ==
    IF Len(buf) < MIN_HEADER_LEN THEN "BufferTooShort"
    ELSE LET entries_len == entries_length(buf)
             min_with_entries == OPTIONS_LENGTH(entries_len.num).end
         IN  IF min_with_entries.panic THEN "Panic"
             ELSE IF NumLt(Num(Len(buf)), min_with_entries) THEN "BufferTooShort"
             ELSE LET options_len == options_length(buf)
                  IN  IF options_len.panic THEN "Panic"
                      ELSE LET required_len ==
                                   OPTIONS_ARRAY(entries_len.num, options_len.num).end
                           IN  IF required_len.panic THEN "Panic"
                               ELSE IF NumLt(Num(Len(buf)), required_len)
                                    THEN "BufferTooShort"
                                    ELSE "Ok"

----------------------------------------------------------------------------
(* packet.rs: the write path.  Each setter returns [panic, buf].           *)

set_flags(buf, value) == Patch(buf, FLAGS, <<value>>)

set_reserved_little_endian(buf, value) ==
    Patch(buf, RESERVED, <<value.lo % 256, value.lo \div 256, value.hi % 256>>)

set_reserved(buf, value) ==
    Patch(buf, RESERVED, <<value.hi % 256, value.lo \div 256, value.lo % 256>>)

set_entries_length(buf, length) == Patch(buf, LENGTH, write_u32(length))

\* entries_array_mut().copy_from_slice(src)
copy_to_entries_array_mut(buf, src) ==
    LET len == entries_length(buf)
    IN  IF len.panic THEN [panic |-> TRUE, buf |-> buf]
        ELSE Patch(buf, ENTRIES_ARRAY(len.num), src)

set_options_length(buf, length) ==
    LET entries_len == entries_length(buf)
    IN  IF entries_len.panic THEN [panic |-> TRUE, buf |-> buf]
        ELSE Patch(buf, OPTIONS_LENGTH(entries_len.num), write_u32(length))

\* options_array_mut().copy_from_slice(src)
copy_to_options_array_mut(buf, src) ==
    LET entries_len == entries_length(buf)
        options_len == IF entries_len.panic THEN Val(Panicked) ELSE options_length(buf)
    IN  IF options_len.panic THEN [panic |-> TRUE, buf |-> buf]
        ELSE Patch(buf, OPTIONS_ARRAY(entries_len.num, options_len.num), src)

----------------------------------------------------------------------------
(* repr.rs: Repr::parse, Repr::emit, Repr::buffer_len.                     *)

ParseResult(outcome, f, r, e, o) ==
    [outcome |-> outcome, flags |-> f, reserved |-> r, entries |-> e, options |-> o]

Repr_parse(buf) ==
    LET checked == check_len(buf)
    IN  IF checked # "Ok" THEN ParseResult(checked, 0, Num(0), <<>>, <<>>)
        ELSE LET f == flags(buf)
                 r == reserved(buf)
                 e == entries_array(buf)
                 o == options_array(buf)
             IN  IF f.panic \/ r.panic \/ e.panic \/ o.panic
                 THEN ParseResult("Panic", 0, Num(0), <<>>, <<>>)
                 ELSE ParseResult("Ok", f.num.lo, r.num, e.bytes, o.bytes)

Repr_emit(repr, buf) ==
    LET s1 == set_flags(buf, repr.flags)
        s2 == IF s1.panic THEN s1 ELSE set_reserved(s1.buf, repr.reserved)
        s3 == IF s2.panic THEN s2 ELSE set_entries_length(s2.buf, Num(Len(repr.entries)))
        s4 == IF s3.panic THEN s3 ELSE copy_to_entries_array_mut(s3.buf, repr.entries)
        s5 == IF s4.panic THEN s4 ELSE set_options_length(s4.buf, Num(Len(repr.options)))
    IN  IF s5.panic THEN s5 ELSE copy_to_options_array_mut(s5.buf, repr.options)

Repr_buffer_len(repr) ==
    OPTIONS_ARRAY(Num(Len(repr.entries)), Num(Len(repr.options))).end

----------------------------------------------------------------------------
(* The input buffers: a packet laid out on the wire, with truthful or      *)
(* oversized length fields, cut at any length or followed by more bytes.   *)

Pattern(base, n) == [i \in 1..n |-> base + i]

Headers == {<<0, 0, 0, 0>>, <<128, 18, 52, 86>>}

EntriesInputs == {Pattern(160, n) : n \in 0..MaxEntriesLen}

OptionsInputs == {Pattern(192, n) : n \in 0..MaxOptionsLen}

\* declared lengths that are not the length of the array that follows
OversizedLengths == {<<255, 255, 255, 255>>, <<255, 255, 255, 248>>, <<0, 1, 0, 0>>}

Wire(hdr, elen, e, olen, o) == hdr \o elen \o e \o olen \o o

Layout(hdr, e, o) == Wire(hdr, write_u32(Num(Len(e))), e, write_u32(Num(Len(o))), o)

Prefixes(s) == {SubSeq(s, 1, n) : n \in 0..Len(s)}

\* the length fields an input may declare for an array a
DeclaredLengths(a) == OversizedLengths \cup {write_u32(Num(Len(a)))}

WiresOf(hdr, e, o) ==
    {Wire(hdr, elen, e, olen, o) \o Pattern(224, MaxTrailing) :
       elen \in DeclaredLengths(e), olen \in DeclaredLengths(o)}

PacketInputs ==
    UNION {Prefixes(w) :
             w \in UNION {WiresOf(hdr, e, o) :
                            hdr \in Headers, e \in EntriesInputs, o \in OptionsInputs}}

NoRepr == [flags |-> 0, reserved |-> Num(0), entries |-> <<>>, options |-> <<>>]

\* the record of a call: its name, how it ended ("Ok", "Panic" or the error),
\* and the integer, the bytes or the Repr it returned
NoCall == [op |-> "none", outcome |-> "Ok", num |-> Num(0), bytes |-> <<>>, repr |-> NoRepr]

Read(op, r) ==
    [op |-> op, outcome |-> IF r.panic THEN "Panic" ELSE "Ok",
     num |-> r.num, bytes |-> r.bytes, repr |-> NoRepr]

Parsed(r) ==
    [op |-> "Repr::parse", outcome |-> r.outcome, num |-> Num(0), bytes |-> <<>>,
     repr |-> [flags |-> r.flags, reserved |-> r.reserved,
               entries |-> r.entries, options |-> r.options]]

Emitted(st) ==
    [op |-> "Repr::emit", outcome |-> IF st.panic THEN "Panic" ELSE "Ok",
     num |-> Num(0), bytes |-> <<>>, repr |-> NoRepr]

PacketInit ==
    /\ build \in Builds
    /\ buffer \in PacketInputs
    /\ pkt = "none"
    /\ check_result = "none"
    /\ last = NoCall
    /\ repr_in = NoRepr
    /\ entry = NoEntry
    /\ option = NoOption
    /\ ser = NoSer
    /\ iter = NoIter
    /\ pure = NoPure
    /\ calls = <<>>

\* Packet::new_checked(buffer)
NewChecked ==
    /\ pkt = "none"
    /\ pkt' = "checked"
    /\ check_result' = check_len(buffer)
    /\ UNCHANGED <<build, buffer, last, repr_in, entry, option, ser, iter, pure, calls>>

\* Packet::new_unchecked(buffer)
NewUnchecked ==
    /\ pkt = "none"
    /\ pkt' = "unchecked"
    /\ UNCHANGED <<build, buffer, check_result, last, repr_in, entry, option, ser, iter, pure, calls>>

\* a Packet value exists: new_unchecked always gives one, new_checked only on Ok
HavePacket == pkt \in {"unchecked", "emitted"} \/ (pkt = "checked" /\ check_result = "Ok")

Call(op, r) ==
    /\ HavePacket
    /\ last' = Read(op, r)
    /\ UNCHANGED <<build, buffer, pkt, check_result, repr_in, entry, option, ser, iter, pure, calls>>

\* the values of Repr.reserved (a u32) given to emit:
\* 0, 0x123456, 0xFFFFFF, 0x01000000, 0xFFFFFFFF
ReservedInputs ==
    {[panic |-> FALSE, hi |-> h, lo |-> l] :
       <<h, l>> \in {<<0, 0>>, <<18, 13398>>, <<255, 65535>>, <<256, 0>>, <<65535, 65535>>}}

ReprInputs ==
    {[flags |-> 192, reserved |-> r, entries |-> e, options |-> o] :
       r \in ReservedInputs,
       e \in {Pattern(16, n) : n \in 0..MaxEntriesLen},
       o \in {Pattern(32, n) : n \in 0..MaxOptionsLen}}

\* Repr::emit(&repr, &mut packet) on a fresh Packet::new_unchecked over a
\* buffer of repr.buffer_len() bytes, whatever the buffer held before
ReprEmit ==
    /\ pkt = "unchecked"
    /\ last = NoCall
    /\ \E repr \in ReprInputs :
         /\ Repr_buffer_len(repr) = Num(Len(buffer))
         /\ LET st == Repr_emit(repr, buffer)
            IN  /\ buffer' = st.buf
                /\ last' = Emitted(st)
         /\ repr_in' = repr
    /\ pkt' = "emitted"
    /\ UNCHANGED <<build, check_result, entry, option, ser, iter, pure, calls>>

\* Repr::parse(&packet)
ReprParse ==
    /\ HavePacket
    /\ last' = Parsed(Repr_parse(buffer))
    /\ UNCHANGED <<build, buffer, pkt, check_result, repr_in, entry, option, ser, iter, pure, calls>>

PacketNext ==
    \/ NewChecked
    \/ NewUnchecked
    \/ Call("flags", flags(buffer))
    \/ Call("reserved", reserved(buffer))
    \/ Call("entries_length", entries_length(buffer))
    \/ Call("entries_array", entries_array(buffer))
    \/ Call("options_length", options_length(buffer))
    \/ Call("options_array", options_array(buffer))
    \/ Call("total_length", total_length(buffer))
    \/ ReprEmit
    \/ ReprParse

SpecPacket == PacketInit /\ [][PacketNext]_vars

----------------------------------------------------------------------------
(* Claims about the packet codec, checked under SpecPacket.                *)

\* a + b in unbounded arithmetic
MathAdd(a, b) ==
    LET lo == a.lo + b.lo
    IN  [panic |-> FALSE, hi |-> a.hi + b.hi + (lo \div Limb), lo |-> lo % Limb]

\* the declared entries length E of a buffer of at least 8 bytes
DeclaredE(buf) == read_u32(SubSeq(buf, 5, 8))

\* the declared options length O of a buffer of at least 12 + E bytes
DeclaredO(buf) == read_u32(SubSeq(buf, DeclaredE(buf).lo + 9, DeclaredE(buf).lo + 12))

\* len(B) < 8, or len(B) < 8 + E + 4, or len(B) < 12 + E + O
TooShort(buf) ==
    \/ Len(buf) < 8
    \/ NumLt(Num(Len(buf)), MathAdd(DeclaredE(buf), Num(12)))
    \/ NumLt(Num(Len(buf)), MathAdd(MathAdd(DeclaredE(buf), Num(12)), DeclaredO(buf)))

\* C1: Packet::new_checked(B) returns Err(BufferTooShort) exactly when
\* len(B) < 8, or len(B) < 8 + E + 4, or len(B) < 12 + E + O, and Ok
\* otherwise, for every u32 value of the length fields E and O.
C1_NewCheckedExactlyWhenTooShort ==
    pkt = "checked" =>
        check_result = IF TooShort(buffer) THEN "BufferTooShort" ELSE "Ok"

Accessors ==
    {"flags", "reserved", "entries_length", "entries_array", "options_length",
     "options_array", "total_length"}

\* C2: on a buffer that Packet::new_checked accepted, every read accessor
\* stays inside the buffer and does not fail, and total_length() is at most
\* the buffer length; Repr::parse on any packet returns Err(BufferTooShort)
\* for a too-short buffer and never reads out of bounds.
C2_CheckedPacketReadsInBounds ==
    /\ (pkt = "checked" /\ check_result = "Ok" /\ last.op \in Accessors) =>
          /\ last.outcome = "Ok"
          /\ last.op = "total_length" => ~NumLt(Num(Len(buffer)), last.num)
    /\ last.op = "Repr::parse" =>
          /\ last.outcome # "Panic"
          /\ TooShort(buffer) => last.outcome = "BufferTooShort"

\* C3: the buffer flags | reserved | u32be(len e) | e | u32be(len o) | o is
\* accepted by Packet::new_checked, and entries_array() returns exactly e and
\* options_array() exactly o, also when e or o is empty.
C3_LayoutIsAcceptedAndSplit ==
    \A hdr \in Headers, e \in EntriesInputs, o \in OptionsInputs :
        (buffer = Layout(hdr, e, o) /\ pkt = "checked") =>
            /\ check_result = "Ok"
            /\ last.op = "entries_array" => (last.outcome = "Ok" /\ last.bytes = e)
            /\ last.op = "options_array" => (last.outcome = "Ok" /\ last.bytes = o)

\* C3 witness: a packet with non-empty entries and options was checked and
\* its options array read back.
C3_Witness ==
    /\ buffer = Layout(<<128, 18, 52, 86>>, Pattern(160, 2), Pattern(192, 1))
    /\ pkt = "checked"
    /\ last.op = "options_array"
    /\ last.bytes = Pattern(192, 1)

\* C4 as stated: Repr::emit into a buffer of R.buffer_len() bytes followed by
\* Repr::parse returns Ok with a Repr equal to R in every field, for any
\* flags, any u32 reserved value, any entries and options.
C4_EmitParseEveryField ==
    (pkt = "emitted" /\ last.op = "Repr::parse") =>
        (last.outcome = "Ok" /\ last.repr = repr_in)

\* C4 amended: Repr::emit followed by Repr::parse returns Ok with flags,
\* entries and options equal to R's and reserved equal to the low 24 bits of
\* R.reserved, so equal to R in every field when R.reserved <= 0xFFFFFF.
C4_EmitParseLow24Reserved ==
    (pkt = "emitted" /\ last.op = "Repr::parse") =>
        /\ last.outcome = "Ok"
        /\ last.repr.flags = repr_in.flags
        /\ last.repr.entries = repr_in.entries
        /\ last.repr.options = repr_in.options
        /\ last.repr.reserved =
               [panic |-> FALSE, hi |-> repr_in.reserved.hi % 256,
                lo |-> repr_in.reserved.lo]
        /\ repr_in.reserved.hi < 256 => last.repr = repr_in

\* C4 witness: a Repr with reserved 0x123456 and non-empty arrays was emitted
\* and parsed back.
C4_Witness ==
    /\ pkt = "emitted"
    /\ last.op = "Repr::parse"
    /\ last.outcome = "Ok"
    /\ repr_in.reserved = [panic |-> FALSE, hi |-> 18, lo |-> 13398]
    /\ Len(repr_in.entries) = 2
    /\ Len(repr_in.options) = 1
    /\ last.repr = repr_in

----------------------------------------------------------------------------
(* entries.rs: the 16-byte service and eventgroup entries.                 *)

Field(a, b) == [start |-> Num(a), end |-> Num(b)]

\* NetworkEndian::read_u16 / write_u16 on the first two bytes of a slice
read_u16(s) == s[1] * 256 + s[2]

write_u16(v) == <<v \div 256, v % 256>>

\* field::service_entry
service_entry ==
    [TYPE |-> Field(0, 1), INDEX_FIRST_OPTION_RUN |-> Field(1, 2),
     INDEX_SECOND_OPTION_RUN |-> Field(2, 3), NUMBER_OF_OPTIONS |-> Field(3, 4),
     SERVICE_ID |-> Field(4, 6), INSTANCE_ID |-> Field(6, 8),
     MAJOR_VERSION |-> Field(8, 9), TTL |-> Field(9, 12),
     MINOR_VERSION |-> Field(12, 16)]

\* a layout whose reserved_and_counter starts one byte late
event_group_entry_counter_one_byte_late ==
    [TYPE |-> Field(0, 1), INDEX_FIRST_OPTION_RUN |-> Field(1, 2),
     INDEX_SECOND_OPTION_RUN |-> Field(2, 3), NUMBER_OF_OPTIONS |-> Field(3, 4),
     SERVICE_ID |-> Field(4, 6), INSTANCE_ID |-> Field(6, 8),
     MAJOR_VERSION |-> Field(8, 9), TTL |-> Field(9, 12),
     RESERVED_AND_COUNTER |-> Field(13, 15), EVENTGROUP_ID |-> Field(14, 16)]

\* field::event_group_entry
event_group_entry ==
    [TYPE |-> Field(0, 1), INDEX_FIRST_OPTION_RUN |-> Field(1, 2),
     INDEX_SECOND_OPTION_RUN |-> Field(2, 3), NUMBER_OF_OPTIONS |-> Field(3, 4),
     SERVICE_ID |-> Field(4, 6), INSTANCE_ID |-> Field(6, 8),
     MAJOR_VERSION |-> Field(8, 9), TTL |-> Field(9, 12),
     RESERVED_AND_COUNTER |-> Field(12, 14), EVENTGROUP_ID |-> Field(14, 16)]

EntryTypes == {"FindService", "OfferService", "Subscribe", "SubscribeAck"}

\* EntryType::from_u8: the variant, or "None"
EntryType_from_u8(value) ==
    CASE value = 0 -> "FindService"
      [] value = 1 -> "OfferService"
      [] value = 6 -> "Subscribe"
      [] value = 7 -> "SubscribeAck"
      [] OTHER -> "None"

\* EntryType::as_u8
EntryType_as_u8(t) ==
    CASE t = "FindService" -> 0
      [] t = "OfferService" -> 1
      [] t = "Subscribe" -> 6
      [] t = "SubscribeAck" -> 7

is_service_entry(t) == t \in {"FindService", "OfferService"}

is_eventgroup_entry(t) == t \in {"Subscribe", "SubscribeAck"}

\* one write of a setter: the bytes src stored at range
Write(range, src) == [range |-> range, src |-> src]

\* the writes ws applied in order to st = [panic, buf, high]; high is one
\* past the highest index written; the first write out of range panics
RECURSIVE ApplyWrites(_, _)
ApplyWrites(st, ws) ==
    IF st.panic \/ ws = <<>> THEN st
    ELSE LET w == Head(ws)
             r == Patch(st.buf, w.range, w.src)
             high == IF NumLt(Num(st.high), w.range.end) THEN w.range.end.lo ELSE st.high
         IN  ApplyWrites([panic |-> r.panic, buf |-> r.buf, high |-> high], Tail(ws))

Untouched(buf) == [panic |-> FALSE, buf |-> buf, high |-> 0]

\* the bytes of a field of a view that holds the field
At(buf, range) == Slice(buf, range).bytes

\* a u32 from its 16-bit halves
U32(hi, lo) == [panic |-> FALSE, hi |-> hi, lo |-> lo]

\* ServiceEntry::ttl: three bytes, most significant first
ServiceEntry_ttl(buf) ==
    LET bytes == At(buf, service_entry.TTL)
    IN  U32(bytes[1], bytes[2] * 256 + bytes[3])

\* a set_ttl that keeps only the low 16 bits
ServiceEntry_set_ttl_low16(value) ==
    Write(service_entry.TTL, <<0, value.lo \div 256, value.lo % 256>>)

\* ServiceEntry::set_ttl: (value >> 16) & 0xFF, (value >> 8) & 0xFF, value & 0xFF
ServiceEntry_set_ttl(value) ==
    Write(service_entry.TTL, <<value.hi % 256, value.lo \div 256, value.lo % 256>>)

\* EventGroupEntry::ttl
EventGroupEntry_ttl(buf) ==
    LET bytes == At(buf, event_group_entry.TTL)
    IN  U32(bytes[1], bytes[2] * 256 + bytes[3])

\* a set_ttl that writes the least significant byte first
EventGroupEntry_set_ttl_least_significant_first(value) ==
    Write(event_group_entry.TTL, <<value.lo % 256, value.lo \div 256, value.hi % 256>>)

\* EventGroupEntry::set_ttl
EventGroupEntry_set_ttl(value) ==
    Write(event_group_entry.TTL, <<value.hi % 256, value.lo \div 256, value.lo % 256>>)

EntryResult(outcome, byte, repr) == [outcome |-> outcome, byte |-> byte, repr |-> repr]

\* a check that takes any known entry type for a service entry type
ServiceEntry_check_entry_type_any_known(buf) ==
    LET type_val == At(buf, service_entry.TYPE)[1]
    IN  IF EntryType_from_u8(type_val) # "None"
        THEN EntryResult("Ok", type_val, <<>>)
        ELSE EntryResult("InvalidEntryType", type_val, <<>>)

\* ServiceEntry::check_entry_type: Ok, or Err(InvalidEntryType(type_val))
ServiceEntry_check_entry_type(buf) ==
    LET type_val == At(buf, service_entry.TYPE)[1]
    IN  IF is_service_entry(EntryType_from_u8(type_val))
        THEN EntryResult("Ok", type_val, <<>>)
        ELSE EntryResult("InvalidEntryType", type_val, <<>>)

\* EventGroupEntry::check_entry_type
EventGroupEntry_check_entry_type(buf) ==
    LET type_val == At(buf, event_group_entry.TYPE)[1]
    IN  IF is_eventgroup_entry(EntryType_from_u8(type_val))
        THEN EntryResult("Ok", type_val, <<>>)
        ELSE EntryResult("InvalidEntryType", type_val, <<>>)

\* ServiceEntryRepr::buffer_len
ServiceEntryRepr_buffer_len == service_entry.MINOR_VERSION.end.lo

\* EventGroupEntryRepr::buffer_len
EventGroupEntryRepr_buffer_len == event_group_entry.EVENTGROUP_ID.end.lo

\* ServiceEntryRepr::parse: the type is checked first; then every getter
\* indexes its own field, which panics on a view shorter than the field's end
ServiceEntryRepr_parse(buf) ==
    IF Len(buf) < 1 THEN EntryResult("Panic", 0, <<>>)
    ELSE LET checked == ServiceEntry_check_entry_type(buf)
             entry_type == EntryType_from_u8(At(buf, service_entry.TYPE)[1])
         IN  IF checked.outcome # "Ok" THEN checked
             ELSE IF entry_type = "None" \/ ~is_service_entry(entry_type)
                  THEN EntryResult("InvalidEntryType", checked.byte, <<>>)
             ELSE IF Len(buf) < service_entry.MINOR_VERSION.end.lo
                  THEN EntryResult("Panic", 0, <<>>)
             ELSE EntryResult("Ok", checked.byte,
                    [entry_type |-> entry_type,
                     index_first_option_run |-> At(buf, service_entry.INDEX_FIRST_OPTION_RUN)[1],
                     index_second_option_run |-> At(buf, service_entry.INDEX_SECOND_OPTION_RUN)[1],
                     number_of_options |-> At(buf, service_entry.NUMBER_OF_OPTIONS)[1],
                     service_id |-> read_u16(At(buf, service_entry.SERVICE_ID)),
                     instance_id |-> read_u16(At(buf, service_entry.INSTANCE_ID)),
                     major_version |-> At(buf, service_entry.MAJOR_VERSION)[1],
                     ttl |-> ServiceEntry_ttl(buf),
                     minor_version |-> read_u32(At(buf, service_entry.MINOR_VERSION))])

\* ServiceEntryRepr::emit: the nine setters in the order of the source
ServiceEntryRepr_emit(repr, buf) ==
    ApplyWrites(Untouched(buf),
      << Write(service_entry.TYPE, <<EntryType_as_u8(repr.entry_type)>>),
         Write(service_entry.INDEX_FIRST_OPTION_RUN, <<repr.index_first_option_run>>),
         Write(service_entry.INDEX_SECOND_OPTION_RUN, <<repr.index_second_option_run>>),
         Write(service_entry.NUMBER_OF_OPTIONS, <<repr.number_of_options>>),
         Write(service_entry.SERVICE_ID, write_u16(repr.service_id)),
         Write(service_entry.INSTANCE_ID, write_u16(repr.instance_id)),
         Write(service_entry.MAJOR_VERSION, <<repr.major_version>>),
         ServiceEntry_set_ttl(repr.ttl),
         Write(service_entry.MINOR_VERSION, write_u32(repr.minor_version)) >>)

\* EventGroupEntryRepr::parse
EventGroupEntryRepr_parse(buf) ==
    IF Len(buf) < 1 THEN EntryResult("Panic", 0, <<>>)
    ELSE LET checked == EventGroupEntry_check_entry_type(buf)
             entry_type == EntryType_from_u8(At(buf, event_group_entry.TYPE)[1])
         IN  IF checked.outcome # "Ok" THEN checked
             ELSE IF entry_type = "None" \/ ~is_eventgroup_entry(entry_type)
                  THEN EntryResult("InvalidEntryType", checked.byte, <<>>)
             ELSE IF Len(buf) < event_group_entry.EVENTGROUP_ID.end.lo
                  THEN EntryResult("Panic", 0, <<>>)
             ELSE EntryResult("Ok", checked.byte,
                    [entry_type |-> entry_type,
                     index_first_option_run |-> At(buf, event_group_entry.INDEX_FIRST_OPTION_RUN)[1],
                     index_second_option_run |-> At(buf, event_group_entry.INDEX_SECOND_OPTION_RUN)[1],
                     number_of_options |-> At(buf, event_group_entry.NUMBER_OF_OPTIONS)[1],
                     service_id |-> read_u16(At(buf, event_group_entry.SERVICE_ID)),
                     instance_id |-> read_u16(At(buf, event_group_entry.INSTANCE_ID)),
                     major_version |-> At(buf, event_group_entry.MAJOR_VERSION)[1],
                     ttl |-> EventGroupEntry_ttl(buf),
                     reserved_and_counter |-> read_u16(At(buf, event_group_entry.RESERVED_AND_COUNTER)),
                     eventgroup_id |-> read_u16(At(buf, event_group_entry.EVENTGROUP_ID))])

\* EventGroupEntryRepr::emit: the ten setters in the order of the source
EventGroupEntryRepr_emit(repr, buf) ==
    ApplyWrites(Untouched(buf),
      << Write(event_group_entry.TYPE, <<EntryType_as_u8(repr.entry_type)>>),
         Write(event_group_entry.INDEX_FIRST_OPTION_RUN, <<repr.index_first_option_run>>),
         Write(event_group_entry.INDEX_SECOND_OPTION_RUN, <<repr.index_second_option_run>>),
         Write(event_group_entry.NUMBER_OF_OPTIONS, <<repr.number_of_options>>),
         Write(event_group_entry.SERVICE_ID, write_u16(repr.service_id)),
         Write(event_group_entry.INSTANCE_ID, write_u16(repr.instance_id)),
         Write(event_group_entry.MAJOR_VERSION, <<repr.major_version>>),
         EventGroupEntry_set_ttl(repr.ttl),
         Write(event_group_entry.RESERVED_AND_COUNTER, write_u16(repr.reserved_and_counter)),
         Write(event_group_entry.EVENTGROUP_ID, write_u16(repr.eventgroup_id)) >>)

----------------------------------------------------------------------------
(* The entry views as a state machine: a 16-byte buffer, a Repr emitted    *)
(* into it, and a parse of the view.                                       *)

\* ttl values given to emit: 0, 0x123456, 0xFFFFFF, 0x01000000, 0xFFFFFFFF
TtlInputs ==
    {U32(0, 0), U32(18, 13398), U32(255, 65535), U32(256, 0), U32(65535, 65535)}

ServiceEntryReprInputs ==
    {[entry_type |-> t, index_first_option_run |-> 1, index_second_option_run |-> 2,
      number_of_options |-> n, service_id |-> 4660, instance_id |-> 65535,
      major_version |-> 1, ttl |-> ttl, minor_version |-> m] :
       t \in EntryTypes, n \in {0, 33}, ttl \in TtlInputs,
       m \in {U32(0, 1), U32(65535, 65535)}}

EventGroupEntryReprInputs ==
    {[entry_type |-> t, index_first_option_run |-> 1, index_second_option_run |-> 2,
      number_of_options |-> 33, service_id |-> 4660, instance_id |-> 65535,
      major_version |-> 1, ttl |-> ttl, reserved_and_counter |-> rc,
      eventgroup_id |-> 1] :
       t \in EntryTypes, ttl \in TtlInputs, rc \in {0, 43973}}

\* what the 16 bytes hold before emit
EntryBuffers ==
    {[i \in 1..ServiceEntryRepr_buffer_len |-> fill] : fill \in {0, 255}}

EntryInit ==
    /\ PacketIdle
    /\ entry \in {[NoEntry EXCEPT !.buf = b] : b \in EntryBuffers}
    /\ option = NoOption
    /\ ser = NoSer
    /\ iter = NoIter
    /\ pure = NoPure
    /\ calls = <<>>

nonEntryVars == <<build, buffer, pkt, check_result, last, repr_in, option, ser, iter, pure, calls>>

\* repr.emit(&mut ServiceEntry::new_unchecked(buf))
ServiceEntryEmit ==
    /\ entry.emitted = "none"
    /\ entry.parsed = "none"
    /\ \E repr \in ServiceEntryReprInputs :
         entry' = [entry EXCEPT !.buf = ServiceEntryRepr_emit(repr, entry.buf).buf,
                                !.emitted = "service", !.input = repr]
    /\ UNCHANGED nonEntryVars

\* repr.emit(&mut EventGroupEntry::new_unchecked(buf))
EventGroupEntryEmit ==
    /\ entry.emitted = "none"
    /\ entry.parsed = "none"
    /\ \E repr \in EventGroupEntryReprInputs :
         entry' = [entry EXCEPT !.buf = EventGroupEntryRepr_emit(repr, entry.buf).buf,
                                !.emitted = "eventgroup", !.input = repr]
    /\ UNCHANGED nonEntryVars

\* ServiceEntryRepr::parse(&ServiceEntry::new_unchecked(buf))
ServiceEntryParse ==
    /\ entry.parsed = "none"
    /\ entry' = [entry EXCEPT !.parsed = "service",
                              !.result = ServiceEntryRepr_parse(entry.buf)]
    /\ UNCHANGED nonEntryVars

\* EventGroupEntryRepr::parse(&EventGroupEntry::new_unchecked(buf))
EventGroupEntryParse ==
    /\ entry.parsed = "none"
    /\ entry' = [entry EXCEPT !.parsed = "eventgroup",
                              !.result = EventGroupEntryRepr_parse(entry.buf)]
    /\ UNCHANGED nonEntryVars

EntryNext ==
    \/ ServiceEntryEmit
    \/ EventGroupEntryEmit
    \/ ServiceEntryParse
    \/ EventGroupEntryParse

SpecEntry == EntryInit /\ [][EntryNext]_vars

----------------------------------------------------------------------------
(* Claims about the entry Reprs, checked under SpecEntry.                  *)

\* an emit of one entry kind followed by the parse of the same kind
EntryRoundTrip == entry.emitted # "none" /\ entry.parsed = entry.emitted

\* C5 as stated: for any ServiceEntryRepr or EventGroupEntryRepr R, with any
\* of the four EntryType values and any u32 ttl, emit into a 16-byte view
\* followed by parse returns Ok(R') with R' equal to R in every field.
C5_EntryEmitParseEveryField ==
    EntryRoundTrip => (entry.result.outcome = "Ok" /\ entry.result.repr = entry.input)

\* the entry types the parse of a kind of entry accepts
TypeOfKind(kind, t) ==
    IF kind = "service" THEN is_service_entry(t) ELSE is_eventgroup_entry(t)

\* C5 amended: emit then parse returns Ok(R') exactly when R.entry_type is of
\* the Repr's own family (FindService/OfferService for a service entry,
\* Subscribe/SubscribeAck for an eventgroup entry), and then R' equals R in
\* every field except that R'.ttl is the low 24 bits of R.ttl, so R' = R
\* when R.ttl <= 0xFFFFFF; for a type of the other family parse returns
\* Err(InvalidEntryType) carrying the type byte.
C5_EntryEmitParseOwnFamilyLow24Ttl ==
    EntryRoundTrip =>
        IF TypeOfKind(entry.emitted, entry.input.entry_type)
        THEN /\ entry.result.outcome = "Ok"
             /\ entry.result.repr =
                    [entry.input EXCEPT !.ttl = U32(entry.input.ttl.hi % 256, entry.input.ttl.lo)]
             /\ entry.input.ttl.hi < 256 => entry.result.repr = entry.input
        ELSE /\ entry.result.outcome = "InvalidEntryType"
             /\ entry.result.byte = EntryType_as_u8(entry.input.entry_type)

\* C5 witness: an eventgroup entry with ttl 0x123456 and a non-zero counter
\* was emitted and parsed back equal.
C5_Witness ==
    /\ entry.emitted = "eventgroup"
    /\ entry.parsed = "eventgroup"
    /\ entry.input.entry_type = "SubscribeAck"
    /\ entry.input.ttl = U32(18, 13398)
    /\ entry.input.reserved_and_counter = 43973
    /\ entry.result.outcome = "Ok"
    /\ entry.result.repr = entry.input

----------------------------------------------------------------------------
(* options.rs: the option header and the endpoint and load-balancing       *)
(* options.  An option view wraps the whole option, header included, so    *)
(* payload fields are addressed at 4 + their field offset.                 *)

\* field::option_header
option_header ==
    [LENGTH |-> Field(0, 2), TYPE |-> Field(2, 3),
     DISCARDABLE_FLAG_AND_RESERVED |-> Field(3, 4)]

\* field::load_balancing_option
load_balancing_option == [PRIORITY |-> Field(0, 2), WEIGHT |-> Field(2, 4)]

\* field::ipv4_endpoint_option
ipv4_endpoint_option ==
    [IPV4_ADDRESS |-> Field(0, 4), RESERVED |-> Field(4, 5),
     TRANSPORT_PROTOCOL |-> Field(5, 6), PORT |-> Field(6, 8)]

\* field::ipv6_endpoint_option
ipv6_endpoint_option ==
    [IPV6_ADDRESS |-> Field(0, 16), RESERVED |-> Field(16, 17),
     TRANSPORT_PROTOCOL |-> Field(17, 18), PORT |-> Field(18, 20)]

\* OptionType::as_u8
OptionType_as_u8(t) ==
    CASE t = "Configuration" -> 1
      [] t = "LoadBalancing" -> 2
      [] t = "IPv4Endpoint" -> 4
      [] t = "IPv6Endpoint" -> 6
      [] t = "IPv4Multicast" -> 20
      [] t = "IPv6Multicast" -> 22
      [] t = "IPv4SdEndpoint" -> 36
      [] t = "IPv6SdEndpoint" -> 38

\* TransportProtocol::from_u8: the variant, or "None"
TransportProtocol_from_u8(value) ==
    CASE value = 6 -> "TCP"
      [] value = 17 -> "UDP"
      [] OTHER -> "None"

\* TransportProtocol::as_u8
TransportProtocol_as_u8(p) ==
    CASE p = "TCP" -> 6
      [] p = "UDP" -> 17

\* buffer[4 + field.start ..] as far as the field's end: the bytes a
\* one-byte index or a read_u16 / write_u16 on that slice touches
AfterHeader(range) == Field(4 + range.start.lo, 4 + range.end.lo)

\* OptionHeader::set_length
OptionHeader_set_length(value) == Write(option_header.LENGTH, write_u16(value))

\* a set_option_type that writes the byte after the type
OptionHeader_set_option_type_in_flag_byte(value) ==
    Write(option_header.DISCARDABLE_FLAG_AND_RESERVED, <<value>>)

\* OptionHeader::set_option_type
OptionHeader_set_option_type(value) == Write(option_header.TYPE, <<value>>)

\* a set_port that forgets the four header bytes
IPv4EndpointOption_set_port_in_payload(port) ==
    Write(ipv4_endpoint_option.PORT, write_u16(port))

\* IPv4EndpointOption::set_port
IPv4EndpointOption_set_port(port) ==
    Write(AfterHeader(ipv4_endpoint_option.PORT), write_u16(port))

\* IPv6EndpointOption::set_port
IPv6EndpointOption_set_port(port) ==
    Write(AfterHeader(ipv6_endpoint_option.PORT), write_u16(port))

\* IPv4EndpointOptionRepr::buffer_len
IPv4EndpointOptionRepr_buffer_len == 12

\* IPv6EndpointOptionRepr::buffer_len
IPv6EndpointOptionRepr_buffer_len == 24

\* LoadBalancingOptionRepr::buffer_len
LoadBalancingOptionRepr_buffer_len == 9

\* IPv4EndpointOption::LENGTH
IPv4EndpointOption_LENGTH == 12

\* IPv6EndpointOption::LENGTH
IPv6EndpointOption_LENGTH == 24

\* LoadBalancingOption::LENGTH
LoadBalancingOption_LENGTH == 8

\* what an emit returns: it panicked or not, the buffer, one past the
\* highest index written, and the usize returned
EmitResult(st, returned) ==
    [outcome |-> IF st.panic THEN "Panic" ELSE "Ok", buf |-> st.buf,
     high |-> st.high, returned |-> returned]

\* the header writes go through &mut buffer[..4], which needs four bytes
HeaderSlice(buf) ==
    [panic |-> Len(buf) < option_header.DISCARDABLE_FLAG_AND_RESERVED.end.lo,
     buf |-> buf, high |-> 0]

\* IPv4EndpointOptionRepr::emit
IPv4EndpointOptionRepr_emit(repr, buf) ==
    EmitResult(
      ApplyWrites(HeaderSlice(buf),
        << OptionHeader_set_length(9),
           OptionHeader_set_option_type(OptionType_as_u8("IPv4Endpoint")),
           Write(Field(4, 8), repr.ipv4_address),
           Write(AfterHeader(ipv4_endpoint_option.TRANSPORT_PROTOCOL),
                 <<TransportProtocol_as_u8(repr.protocol)>>),
           IPv4EndpointOption_set_port(repr.port) >>),
      IPv4EndpointOptionRepr_buffer_len)

\* IPv6EndpointOptionRepr::emit
IPv6EndpointOptionRepr_emit(repr, buf) ==
    EmitResult(
      ApplyWrites(HeaderSlice(buf),
        << OptionHeader_set_length(21),
           OptionHeader_set_option_type(OptionType_as_u8("IPv6Endpoint")),
           Write(Field(4, 20), repr.ipv6_address),
           Write(AfterHeader(ipv6_endpoint_option.TRANSPORT_PROTOCOL),
                 <<TransportProtocol_as_u8(repr.protocol)>>),
           IPv6EndpointOption_set_port(repr.port) >>),
      IPv6EndpointOptionRepr_buffer_len)

\* LoadBalancingOptionRepr::emit
LoadBalancingOptionRepr_emit(repr, buf) ==
    EmitResult(
      ApplyWrites(HeaderSlice(buf),
        << OptionHeader_set_length(5),
           OptionHeader_set_option_type(OptionType_as_u8("LoadBalancing")),
           Write(AfterHeader(load_balancing_option.PRIORITY), write_u16(repr.priority)),
           Write(AfterHeader(load_balancing_option.WEIGHT), write_u16(repr.weight)) >>),
      LoadBalancingOptionRepr_buffer_len)

OptionResult(outcome, byte, repr) == [outcome |-> outcome, byte |-> byte, repr |-> repr]

\* a check_protocol that forgets the four header bytes
IPv4EndpointOption_check_protocol_in_payload(buf) ==
    LET proto == At(buf, ipv4_endpoint_option.TRANSPORT_PROTOCOL)[1]
    IN  IF TransportProtocol_from_u8(proto) # "None"
        THEN OptionResult("Ok", proto, <<>>)
        ELSE OptionResult("InvalidProtocol", proto, <<>>)

\* IPv4EndpointOption::check_protocol on a view that holds byte 9
IPv4EndpointOption_check_protocol(buf) ==
    LET proto == At(buf, AfterHeader(ipv4_endpoint_option.TRANSPORT_PROTOCOL))[1]
    IN  IF TransportProtocol_from_u8(proto) # "None"
        THEN OptionResult("Ok", proto, <<>>)
        ELSE OptionResult("InvalidProtocol", proto, <<>>)

\* IPv6EndpointOption::check_protocol on a view that holds byte 21
IPv6EndpointOption_check_protocol(buf) ==
    LET proto == At(buf, AfterHeader(ipv6_endpoint_option.TRANSPORT_PROTOCOL))[1]
    IN  IF TransportProtocol_from_u8(proto) # "None"
        THEN OptionResult("Ok", proto, <<>>)
        ELSE OptionResult("InvalidProtocol", proto, <<>>)

\* IPv4EndpointOptionRepr::parse: the protocol byte is read first, then the
\* address from bytes 4..8 and the port from bytes 10..12
IPv4EndpointOptionRepr_parse(buf) ==
    IF Len(buf) < AfterHeader(ipv4_endpoint_option.TRANSPORT_PROTOCOL).end.lo
    THEN OptionResult("Panic", 0, <<>>)
    ELSE LET checked == IPv4EndpointOption_check_protocol(buf)
         IN  IF checked.outcome # "Ok" THEN checked
             ELSE IF Len(buf) < AfterHeader(ipv4_endpoint_option.PORT).end.lo
                  THEN OptionResult("Panic", 0, <<>>)
             ELSE OptionResult("Ok", checked.byte,
                    [ipv4_address |-> At(buf, Field(4, 8)),
                     protocol |-> TransportProtocol_from_u8(checked.byte),
                     port |-> read_u16(At(buf, AfterHeader(ipv4_endpoint_option.PORT)))])

\* IPv6EndpointOptionRepr::parse
IPv6EndpointOptionRepr_parse(buf) ==
    IF Len(buf) < AfterHeader(ipv6_endpoint_option.TRANSPORT_PROTOCOL).end.lo
    THEN OptionResult("Panic", 0, <<>>)
    ELSE LET checked == IPv6EndpointOption_check_protocol(buf)
         IN  IF checked.outcome # "Ok" THEN checked
             ELSE IF Len(buf) < AfterHeader(ipv6_endpoint_option.PORT).end.lo
                  THEN OptionResult("Panic", 0, <<>>)
             ELSE OptionResult("Ok", checked.byte,
                    [ipv6_address |-> At(buf, Field(4, 20)),
                     protocol |-> TransportProtocol_from_u8(checked.byte),
                     port |-> read_u16(At(buf, AfterHeader(ipv6_endpoint_option.PORT)))])

\* LoadBalancingOptionRepr::parse: infallible, but the reads need bytes 4..8
LoadBalancingOptionRepr_parse(buf) ==
    IF Len(buf) < AfterHeader(load_balancing_option.WEIGHT).end.lo
    THEN OptionResult("Panic", 0, <<>>)
    ELSE OptionResult("Ok", 0,
           [priority |-> read_u16(At(buf, AfterHeader(load_balancing_option.PRIORITY))),
            weight |-> read_u16(At(buf, AfterHeader(load_balancing_option.WEIGHT)))])

----------------------------------------------------------------------------
(* The option Reprs as a state machine: a buffer with prior contents, one  *)
(* emit into it, one parse of it.                                          *)

\* port, priority and weight values: 0, 0x0100, 0x771A, 0xFFFF
U16Inputs == {0, 256, 30490, 65535}

IPv4EndpointOptionReprInputs ==
    {[ipv4_address |-> a, protocol |-> p, port |-> port] :
       a \in {<<192, 168, 1, 1>>, <<0, 0, 0, 0>>}, p \in {"TCP", "UDP"}, port \in U16Inputs}

IPv6EndpointOptionReprInputs ==
    {[ipv6_address |-> a, protocol |-> p, port |-> port] :
       a \in {[i \in 1..16 |-> 31 + i], [i \in 1..16 |-> 255]},
       p \in {"TCP", "UDP"}, port \in U16Inputs}

LoadBalancingOptionReprInputs ==
    {[priority |-> p, weight |-> w] : p \in U16Inputs, w \in U16Inputs}

\* buffers of each view's LENGTH and each Repr's buffer_len(), holding
\* zeros, 0x11 or 0xFF before the emit
OptionBuffers ==
    {[i \in 1..n |-> fill] :
       n \in {LoadBalancingOption_LENGTH, LoadBalancingOptionRepr_buffer_len,
              IPv4EndpointOptionRepr_buffer_len, IPv6EndpointOptionRepr_buffer_len},
       fill \in {0, 17, 255}}

OptionInit ==
    /\ PacketIdle
    /\ entry = NoEntry
    /\ option \in {[NoOption EXCEPT !.buf = b] : b \in OptionBuffers}
    /\ ser = NoSer
    /\ iter = NoIter
    /\ pure = NoPure
    /\ calls = <<>>

nonOptionVars == <<build, buffer, pkt, check_result, last, repr_in, entry, ser, iter, pure, calls>>

\* an emit into the buffer; a panicking emit leaves no buffer to parse
OptionEmit(kind, repr, r) ==
    /\ option.emitted = "none"
    /\ option.parsed = "none"
    /\ option' = [option EXCEPT !.buf = r.buf, !.emitted = kind, !.input = repr,
                                !.emit = [r EXCEPT !.buf = <<>>]]
    /\ UNCHANGED nonOptionVars

IPv4EndpointOptionEmit ==
    \E repr \in IPv4EndpointOptionReprInputs :
        OptionEmit("ipv4", repr, IPv4EndpointOptionRepr_emit(repr, option.buf))

IPv6EndpointOptionEmit ==
    \E repr \in IPv6EndpointOptionReprInputs :
        OptionEmit("ipv6", repr, IPv6EndpointOptionRepr_emit(repr, option.buf))

LoadBalancingOptionEmit ==
    \E repr \in LoadBalancingOptionReprInputs :
        OptionEmit("lb", repr, LoadBalancingOptionRepr_emit(repr, option.buf))

\* a parse of the buffer, emitted into or not
OptionParse(kind, r) ==
    /\ option.parsed = "none"
    /\ option.emit.outcome \in {"none", "Ok"}
    /\ option' = [option EXCEPT !.parsed = kind, !.result = r]
    /\ UNCHANGED nonOptionVars

IPv4EndpointOptionParse == OptionParse("ipv4", IPv4EndpointOptionRepr_parse(option.buf))

IPv6EndpointOptionParse == OptionParse("ipv6", IPv6EndpointOptionRepr_parse(option.buf))

LoadBalancingOptionParse == OptionParse("lb", LoadBalancingOptionRepr_parse(option.buf))

OptionNext ==
    \/ IPv4EndpointOptionEmit
    \/ IPv6EndpointOptionEmit
    \/ LoadBalancingOptionEmit
    \/ IPv4EndpointOptionParse
    \/ IPv6EndpointOptionParse
    \/ LoadBalancingOptionParse

SpecOption == OptionInit /\ [][OptionNext]_vars

----------------------------------------------------------------------------
(* Claims about the option Reprs, checked under SpecOption.                *)

\* buffer_len() of the Repr of a kind of option
BufferLenOf(kind) ==
    CASE kind = "ipv4" -> IPv4EndpointOptionRepr_buffer_len
      [] kind = "ipv6" -> IPv6EndpointOptionRepr_buffer_len
      [] kind = "lb" -> LoadBalancingOptionRepr_buffer_len

\* an emit into a buffer of exactly the Repr's buffer_len() bytes
EmittedExact ==
    /\ option.emitted # "none"
    /\ Len(option.buf) = BufferLenOf(option.emitted)

\* C6: for any IPv4EndpointOptionRepr, IPv6EndpointOptionRepr or
\* LoadBalancingOptionRepr R, emit into a buffer of exactly buffer_len()
\* bytes with arbitrary prior contents does not fail and writes no index
\* outside the buffer, and the matching parse over that buffer returns a
\* Repr equal to R in every field.
C6_OptionEmitParseRoundTrip ==
    EmittedExact =>
        /\ option.emit.outcome = "Ok"
        /\ option.emit.high <= Len(option.buf)
        /\ option.parsed = option.emitted =>
              (option.result.outcome = "Ok" /\ option.result.repr = option.input)

\* C6 witness: an IPv4 endpoint 192.168.1.1 UDP port 0x771A was emitted over
\* a 12-byte buffer of 0xFF bytes and parsed back equal.
C6_Witness ==
    /\ EmittedExact
    /\ option.emitted = "ipv4"
    /\ option.parsed = "ipv4"
    /\ option.input = [ipv4_address |-> <<192, 168, 1, 1>>, protocol |-> "UDP", port |-> 30490]
    /\ option.buf[4] = 255
    /\ option.result.repr = option.input

----------------------------------------------------------------------------
(* config.rs: configuration entries.  A &str is the sequence of its bytes  *)
(* (valid UTF-8); an Option<&str> is <<>> for None and <<s>> for Some(s).  *)

\* the largest entry size a length byte can carry
U8_MAX == 255

ConfigResult(outcome, e) == [outcome |-> outcome, entry |-> e]

\* a validate_key without the has_non_whitespace test
validate_key_allows_blank(key) ==
    IF key = <<>> THEN "InvalidKey"
    ELSE IF \E i \in 1..Len(key) : key[i] < 32 \/ key[i] > 126 \/ key[i] = 61
         THEN "InvalidKey"
    ELSE "Ok"

\* ConfigEntry::validate_key
validate_key(key) ==
    IF key = <<>> THEN "InvalidKey"
    ELSE IF \E i \in 1..Len(key) : key[i] < 32 \/ key[i] > 126 \/ key[i] = 61
         THEN "InvalidKey"
    ELSE IF \A i \in 1..Len(key) : key[i] = 32 \/ key[i] = 9
         THEN "InvalidKey"
    ELSE "Ok"

\* ConfigEntry::new (flag and with_value call it with None and Some(value))
ConfigEntry_new(key, value) ==
    IF validate_key(key) # "Ok" THEN ConfigResult(validate_key(key), <<>>)
    ELSE ConfigResult("Ok", [key |-> key, value |-> value])

\* the index of the first byte of s equal to b, 0 when there is none
position(s, b) ==
    IF \E i \in 1..Len(s) : s[i] = b
    THEN CHOOSE i \in 1..Len(s) : s[i] = b /\ \A j \in 1..(i - 1) : s[j] # b
    ELSE 0

\* a from_str that splits at the last '=' instead of the first
ConfigEntry_from_str_last_eq(s) ==
    IF s = <<>> THEN ConfigResult("InvalidKey", <<>>)
    ELSE IF s[1] = 61 THEN ConfigResult("KeyStartsWithEquals", <<>>)
    ELSE LET eq_pos == IF \E i \in 1..Len(s) : s[i] = 61
                       THEN CHOOSE i \in 1..Len(s) :
                              s[i] = 61 /\ \A j \in (i + 1)..Len(s) : s[j] # 61
                       ELSE 0
         IN  IF eq_pos # 0
             THEN ConfigEntry_new(SubSeq(s, 1, eq_pos - 1), <<SubSeq(s, eq_pos + 1, Len(s))>>)
             ELSE ConfigEntry_new(s, <<>>)

\* a from_str that takes "key=" for a flag
ConfigEntry_from_str_empty_value_is_flag(s) ==
    IF s = <<>> THEN ConfigResult("InvalidKey", <<>>)
    ELSE IF s[1] = 61 THEN ConfigResult("KeyStartsWithEquals", <<>>)
    ELSE LET eq_pos == position(s, 61)
         IN  IF eq_pos # 0 /\ eq_pos < Len(s)
             THEN ConfigEntry_new(SubSeq(s, 1, eq_pos - 1), <<SubSeq(s, eq_pos + 1, Len(s))>>)
             ELSE IF eq_pos # 0 THEN ConfigEntry_new(SubSeq(s, 1, eq_pos - 1), <<>>)
             ELSE ConfigEntry_new(s, <<>>)

\* ConfigEntry::from_str: the key is what precedes the first '='
ConfigEntry_from_str(s) ==
    IF s = <<>> THEN ConfigResult("InvalidKey", <<>>)
    ELSE IF s[1] = 61 THEN ConfigResult("KeyStartsWithEquals", <<>>)
    ELSE LET eq_pos == position(s, 61)
         IN  IF eq_pos # 0
             THEN ConfigEntry_new(SubSeq(s, 1, eq_pos - 1), <<SubSeq(s, eq_pos + 1, Len(s))>>)
             ELSE ConfigEntry_new(s, <<>>)

\* a wire_size that forgets the '=' of an entry with a value
ConfigEntry_wire_size_no_separator(self) ==
    IF self.value = <<>> THEN Len(self.key)
    ELSE Len(self.key) + Len(self.value[1])

\* ConfigEntry::wire_size
ConfigEntry_wire_size(self) ==
    IF self.value = <<>> THEN Len(self.key)
    ELSE Len(self.key) + 1 + Len(self.value[1])

\* ConfigEntry::write_to(buf): [outcome, buf, written]
ConfigEntry_write_to(self, buf) ==
    LET needed == IF self.value = <<>> THEN Len(self.key)
                  ELSE Len(self.key) + 1 + Len(self.value[1])
        bytes == IF self.value = <<>> THEN self.key
                 ELSE self.key \o <<61>> \o self.value[1]
    IN  IF Len(buf) < needed
        THEN [outcome |-> "BufferTooSmall", buf |-> buf, written |-> 0]
        ELSE [outcome |-> "Ok",
              buf |-> bytes \o SubSeq(buf, needed + 1, Len(buf)),
              written |-> needed]

\* the loop and the terminator of ConfigurationOption::serialize from the
\* i-th entry on, st = [outcome, buf, pos]
RECURSIVE serialize_from(_, _, _)
serialize_from(entries, i, st) ==
    IF i > Len(entries)
    THEN IF st.pos >= Len(st.buf)
         THEN [st EXCEPT !.outcome = "BufferTooSmall"]
         ELSE [outcome |-> "Ok", buf |-> [st.buf EXCEPT ![st.pos + 1] = 0],
               pos |-> st.pos + 1]
    ELSE LET entry_size == ConfigEntry_wire_size(entries[i])
         IN  IF entry_size > U8_MAX THEN [st EXCEPT !.outcome = "BufferTooSmall"]
             ELSE IF st.pos + 1 + entry_size > Len(st.buf)
                  THEN [st EXCEPT !.outcome = "BufferTooSmall"]
             ELSE LET pos == st.pos + 1
                      w == ConfigEntry_write_to(entries[i], SubSeq(st.buf, pos + 1, Len(st.buf)))
                      buf == SubSeq(st.buf, 1, st.pos) \o <<entry_size % 256>> \o w.buf
                  IN  IF w.outcome # "Ok"
                      THEN [outcome |-> w.outcome, buf |-> buf, pos |-> pos]
                      ELSE serialize_from(entries, i + 1,
                             [outcome |-> "Ok", buf |-> buf, pos |-> pos + w.written])

\* ConfigurationOption::serialize(entries, buf): on Ok, pos is the value returned
ConfigurationOption_serialize(entries, buf) ==
    serialize_from(entries, 1, [outcome |-> "Ok", buf |-> buf, pos |-> 0])

\* a wire_size that does not count the terminator
ConfigurationOption_wire_size_without_terminator(entries) ==
    LET RECURSIVE loop(_, _)
        loop(i, size) ==
            IF i > Len(entries) THEN size
            ELSE loop(i + 1, size + 1 + ConfigEntry_wire_size(entries[i]))
    IN  loop(1, 0)

\* ConfigurationOption::wire_size: 1 for the terminator, then for each entry
\* 1 for the length byte and the entry's wire_size
ConfigurationOption_wire_size(entries) ==
    LET RECURSIVE loop(_, _)
        loop(i, size) ==
            IF i > Len(entries) THEN size
            ELSE loop(i + 1, size + 1 + ConfigEntry_wire_size(entries[i]))
    IN  loop(1, 1)

\* the length of the UTF-8 sequence a byte starts, 0 when it starts none
utf8_char_width(b) ==
    IF b < 128 THEN 1
    ELSE IF b >= 194 /\ b <= 223 THEN 2
    ELSE IF b >= 224 /\ b <= 239 THEN 3
    ELSE IF b >= 240 /\ b <= 244 THEN 4
    ELSE 0

\* core::str::from_utf8(s).is_ok(): every byte outside 0x80..=0xBF starts a
\* well-formed sequence (no overlong form, no surrogate, nothing above
\* U+10FFFF) and every byte inside 0x80..=0xBF continues one
from_utf8_is_ok(s) ==
    \A i \in 1..Len(s) :
        LET b == s[i]
            w == utf8_char_width(b)
        IN  IF b >= 128 /\ b <= 191
            THEN \E k \in 1..3 :
                   /\ i - k >= 1
                   /\ utf8_char_width(s[i - k]) > k
                   /\ \A m \in 1..(k - 1) : s[i - m] >= 128 /\ s[i - m] <= 191
            ELSE /\ w >= 1
                 /\ i + w - 1 <= Len(s)
                 /\ \A m \in 1..(w - 1) : s[i + m] >= 128 /\ s[i + m] <= 191
                 /\ b = 224 => s[i + 1] >= 160
                 /\ b = 237 => s[i + 1] <= 159
                 /\ b = 240 => s[i + 1] >= 144
                 /\ b = 244 => s[i + 1] <= 143

\* the items of the iterator: None, Some(Ok(entry)), Some(Err(err))
ItemNone == [kind |-> "None", err |-> "", entry |-> <<>>, at |-> 0]

ItemErr(err) == [kind |-> "Err", err |-> err, entry |-> <<>>, at |-> 0]

ItemOf(r) ==
    IF r.outcome = "Ok" THEN [kind |-> "Ok", err |-> "", entry |-> r.entry, at |-> 0]
    ELSE ItemErr(r.outcome)

\* ConfigEntryIter::next once pos < data.len(): [pos, item, reads], reads
\* being the indices of data the call indexes (the length byte) or slices
\* (the string)
read_entry(data, pos) ==
    LET length == data[pos + 1]
        after == pos + 1
    IN  IF length = 0 THEN [pos |-> after, item |-> ItemNone, reads |-> {pos}]
        ELSE IF after + length > Len(data)
             THEN [pos |-> after, item |-> ItemErr("LengthOverflow"), reads |-> {pos}]
        ELSE LET string_bytes == SubSeq(data, after + 1, after + length)
                 reads == {pos} \cup (after..(after + length - 1))
             IN  IF ~from_utf8_is_ok(string_bytes)
                 THEN [pos |-> after, item |-> ItemErr("InvalidUtf8"), reads |-> reads]
                 ELSE [pos |-> after + length,
                       item |-> ItemOf(ConfigEntry_from_str(string_bytes)),
                       reads |-> reads]

\* a next that ends the iteration quietly when the data is exhausted
ConfigEntryIter_next_none_at_end(data, pos) ==
    IF pos >= Len(data) THEN [pos |-> pos, item |-> ItemNone, reads |-> {}]
    ELSE read_entry(data, pos)

\* a next that moves the cursor past the string before it checks that the
\* string is there
ConfigEntryIter_next_moves_before_check(data, pos) ==
    IF pos >= Len(data) THEN [pos |-> pos, item |-> ItemErr("UnexpectedEnd"), reads |-> {}]
    ELSE LET r == read_entry(data, pos)
         IN  IF r.item.err = "LengthOverflow"
             THEN [r EXCEPT !.pos = pos + 1 + data[pos + 1]]
             ELSE r

\* ConfigEntryIter::next: [pos, item, reads]
ConfigEntryIter_next(data, pos) ==
    IF pos >= Len(data) THEN [pos |-> pos, item |-> ItemErr("UnexpectedEnd"), reads |-> {}]
    ELSE read_entry(data, pos)

----------------------------------------------------------------------------
(* The configuration codec as a state machine: either entries are          *)
(* serialized into a buffer and the written bytes parsed, or raw bytes are *)
(* parsed; next() is called on the iterator up to MaxCalls times.          *)

MaxCalls == MaxConfigEntries + 2

SeqsUpTo(S, n) == UNION {[1..k -> S] : k \in 0..n}

\* keys "k", "a b" and, rejected by ConfigEntry::new, "" and "a=b"
KeyInputs == {<<107>>, <<97, 32, 98>>, <<>>, <<97, 61, 98>>}

\* values None, Some(""), Some("v=w"), Some("e-acute")
ValueInputs == {<<>>, << <<>> >>, << <<118, 61, 119>> >>, << <<195, 169>> >>}

\* the entries ConfigEntry::new accepts
EntryPool ==
    {r.entry : r \in {x \in {ConfigEntry_new(k, v) : k \in KeyInputs, v \in ValueInputs} :
                        x.outcome = "Ok"}}

\* entries "k=xx...x" of wire_size n
LongEntry(n) == [key |-> <<107>>, value |-> << [i \in 1..(n - 2) |-> 120] >>]

LongLists ==
    {<<LongEntry(U8_MAX)>>, <<LongEntry(U8_MAX + 1)>>,
     <<LongEntry(U8_MAX), [key |-> <<107>>, value |-> <<>>]>>,
     <<[key |-> <<107>>, value |-> <<>>], LongEntry(U8_MAX + 1)>>}

EntryLists == SeqsUpTo(EntryPool, MaxConfigEntries) \cup LongLists

\* output buffers holding 0xEE: the short ones, and one that fits every list
SerializeBuffers ==
    {[i \in 1..n |-> 238] : n \in (0..MaxSerBufLen) \cup {2 * U8_MAX + 4 * MaxConfigEntries}}

\* length bytes 0, 1, 2, 3, the bytes '=', 'k', and 0xFF which is never UTF-8
RawAlphabet == {0, 1, 2, 3, 61, 107, 255}

\* b"\x07enabled\x0cversion=1.0a\x00"
EnabledVersion ==
    <<7, 101, 110, 97, 98, 108, 101, 100,
      12, 118, 101, 114, 115, 105, 111, 110, 61, 49, 46, 48, 97, 0>>

\* short inputs over the alphabet, b"\x03key", the documented example, and
\* "k=" followed by e-acute
RawInputs ==
    SeqsUpTo(RawAlphabet, MaxRawLen)
      \cup {<<3, 107, 101, 121>>, EnabledVersion, <<4, 107, 61, 195, 169, 0>>}

ConfigInit ==
    /\ PacketIdle
    /\ entry = NoEntry
    /\ option = NoOption
    /\ pure = NoPure
    /\ \/ /\ ser \in {[NoSer EXCEPT !.phase = "ready", !.entries = es, !.buf = b] :
                        es \in EntryLists, b \in SerializeBuffers}
          /\ iter = NoIter
       \/ /\ ser = NoSer
          /\ iter \in {[NoIter EXCEPT !.phase = "ready", !.data = d] : d \in RawInputs}
    /\ calls = <<>>

nonConfigVars == <<build, buffer, pkt, check_result, last, repr_in, entry, option, pure, calls>>

\* ConfigurationOption::serialize(entries, &mut buf)
Serialize ==
    /\ ser.phase = "ready"
    /\ ser' = [ser EXCEPT !.phase = "done",
                          !.result = ConfigurationOption_serialize(ser.entries, ser.buf)]
    /\ UNCHANGED <<iter, nonConfigVars>>

\* ConfigurationOption::parse(&buf[..n]) after serialize returned Ok(n)
ParseWritten ==
    /\ ser.phase = "done"
    /\ ser.result.outcome = "Ok"
    /\ iter.phase = "idle"
    /\ iter' = [phase |-> "made", data |-> SubSeq(ser.result.buf, 1, ser.result.pos),
                pos |-> 0, items |-> <<>>]
    /\ UNCHANGED <<ser, nonConfigVars>>

\* ConfigurationOption::parse(data) on raw bytes
ParseRaw ==
    /\ iter.phase = "ready"
    /\ iter' = [iter EXCEPT !.phase = "made", !.pos = 0]
    /\ UNCHANGED <<ser, nonConfigVars>>

\* iter.next(); the item is kept with the cursor the call started at
IterNext ==
    /\ iter.phase = "made"
    /\ Len(iter.items) < MaxCalls
    /\ LET r == ConfigEntryIter_next(iter.data, iter.pos)
       IN  iter' = [iter EXCEPT !.pos = r.pos,
                                !.items = Append(@, [r.item EXCEPT !.at = iter.pos])]
    /\ UNCHANGED <<ser, nonConfigVars>>

\* ConfigurationOption::wire_size(entries), before or after serialize
WireSize ==
    /\ ser.phase \in {"ready", "done"}
    /\ pure = NoPure
    /\ pure' = [kind |-> "entries", arg |-> ser.entries,
                fn |-> "ConfigurationOption::wire_size",
                ret |-> ConfigurationOption_wire_size(ser.entries)]
    /\ UNCHANGED <<build, buffer, pkt, check_result, last, repr_in, entry, option, ser, iter, calls>>

ConfigNext ==
    \/ Serialize
    \/ ParseWritten
    \/ ParseRaw
    \/ IterNext
    \/ WireSize

SpecConfig == ConfigInit /\ [][ConfigNext]_vars

----------------------------------------------------------------------------
(* `for result in ConfigurationOption::parse(data) { .. }` with a body that *)
(* neither breaks nor panics: the loop calls next(), leaves on None, and    *)
(* otherwise runs the body with the item bound to `result` and comes back.  *)

ConfigForInit ==
    /\ PacketIdle
    /\ entry = NoEntry
    /\ option = NoOption
    /\ pure = NoPure
    /\ ser = NoSer
    /\ iter \in {[NoIter EXCEPT !.phase = "for_next", !.data = d] : d \in RawInputs}
    /\ calls = <<>>

\* the loop head: iter.next(), and the match on what it returned
ForNext ==
    /\ iter.phase = "for_next"
    /\ LET r == ConfigEntryIter_next(iter.data, iter.pos)
       IN  iter' = [iter EXCEPT
                      !.phase = IF r.item.kind = "None" THEN "for_done" ELSE "for_body",
                      !.pos = r.pos,
                      !.items = IF r.item.kind = "None" THEN <<>>
                                ELSE <<[r.item EXCEPT !.at = iter.pos]>>]
    /\ UNCHANGED <<ser, nonConfigVars>>

\* the loop body ends and drops `result`
ForBody ==
    /\ iter.phase = "for_body"
    /\ iter' = [iter EXCEPT !.phase = "for_next", !.items = <<>>]
    /\ UNCHANGED <<ser, nonConfigVars>>

ConfigForNext ==
    \/ ForNext
    \/ ForBody

\* sequential code takes its next step: the call is made, the body returns
SpecConfigFor ==
    ConfigForInit /\ [][ConfigForNext]_vars /\ WF_vars(ForNext) /\ WF_vars(ForBody)

----------------------------------------------------------------------------
(* Claims about the configuration codec, checked under SpecConfig.         *)

\* the wire size of an entry, from its parts
WireSizeOf(e) == Len(e.key) + (IF e.value = <<>> THEN 0 ELSE 1 + Len(e.value[1]))

\* 1 + the sum over the entries of (1 + wire size)
RECURSIVE TotalWireSize(_)
TotalWireSize(es) ==
    IF es = <<>> THEN 1 ELSE 1 + WireSizeOf(Head(es)) + TotalWireSize(Tail(es))

\* C7: for any sequence of N valid ConfigEntry values of wire_size <= 255,
\* serialize into a large enough buffer followed by parse over exactly the
\* written bytes yields N Ok entries, the i-th equal to the i-th input in
\* key and value (absent, empty or text), and then the end of the sequence.
C7_SerializeParseRoundTrip ==
    (ser.phase = "done" /\ ser.result.outcome = "Ok" /\ iter.phase = "made") =>
        \A i \in 1..Len(iter.items) :
            /\ i <= Len(ser.entries) =>
                  (iter.items[i].kind = "Ok" /\ iter.items[i].entry = ser.entries[i])
            /\ i = Len(ser.entries) + 1 => iter.items[i].kind = "None"

\* C7 witness: a flag and a 255-byte entry were serialized and both parsed
\* back, followed by the end of the sequence.
C7_Witness ==
    /\ ser.phase = "done"
    /\ ser.entries = <<LongEntry(U8_MAX), [key |-> <<107>>, value |-> <<>>]>>
    /\ iter.phase = "made"
    /\ Len(iter.items) = 3
    /\ iter.items[2].entry = [key |-> <<107>>, value |-> <<>>]
    /\ iter.items[3].kind = "None"

\* C8: serialize returns Err(BufferTooSmall) if some entry has wire_size >
\* 255 or if 1 + the sum of (1 + wire_size) exceeds buf.len(), and Ok
\* otherwise; in every case the buffer keeps its length and no byte at or
\* after the reported position, so none at an index >= buf.len(), is written.
C8_SerializeBufferTooSmall ==
    ser.phase = "done" =>
        /\ ser.result.outcome =
              IF \/ \E i \in 1..Len(ser.entries) : WireSizeOf(ser.entries[i]) > 255
                 \/ TotalWireSize(ser.entries) > Len(ser.buf)
              THEN "BufferTooSmall" ELSE "Ok"
        /\ Len(ser.result.buf) = Len(ser.buf)
        /\ ser.result.pos <= Len(ser.buf)
        /\ \A i \in (ser.result.pos + 1)..Len(ser.buf) : ser.result.buf[i] = ser.buf[i]

\* C8 witness: an entry of wire_size 256 was refused although the buffer had
\* room for it, after a first entry had been written.
C8_Witness ==
    /\ ser.phase = "done"
    /\ ser.entries = <<[key |-> <<107>>, value |-> <<>>], LongEntry(U8_MAX + 1)>>
    /\ Len(ser.buf) > 2 * U8_MAX
    /\ ser.result.outcome = "BufferTooSmall"
    /\ ser.result.pos = 2

\* the i-th call read a non-zero length byte L with fewer than L bytes left
Overflows(i) ==
    LET at == iter.items[i].at
    IN  /\ at < Len(iter.data)
        /\ iter.data[at + 1] # 0
        /\ at + 1 + iter.data[at + 1] > Len(iter.data)

\* C9: when next() reads a non-zero length byte L and fewer than L bytes
\* remain, it yields Err(LengthOverflow), and no later call to next() on
\* the same iterator yields an Ok item.
C9_LengthOverflowEndsSequence ==
    iter.phase = "made" =>
        \A i \in 1..Len(iter.items) :
            Overflows(i) =>
                /\ iter.items[i].kind = "Err"
                /\ iter.items[i].err = "LengthOverflow"
                /\ \A j \in (i + 1)..Len(iter.items) : iter.items[j].kind # "Ok"

\* C10: if the cursor is at the end of the buffer and no zero length byte
\* has been read, next() yields Err(UnexpectedEnd); [0x03,'k','e','y']
\* yields Ok(flag "key") then Err(UnexpectedEnd), and an empty buffer
\* yields Err(UnexpectedEnd) at once.
C10_UnexpectedEndWithoutTerminator ==
    iter.phase = "made" =>
        /\ \A i \in 1..Len(iter.items) :
              (/\ iter.items[i].at >= Len(iter.data)
               /\ \A j \in 1..(i - 1) : iter.items[j].kind # "None")
              => (iter.items[i].kind = "Err" /\ iter.items[i].err = "UnexpectedEnd")
        /\ (iter.data = <<3, 107, 101, 121>> /\ Len(iter.items) >= 1) =>
              /\ iter.items[1].kind = "Ok"
              /\ iter.items[1].entry = [key |-> <<107, 101, 121>>, value |-> <<>>]
        /\ (iter.data = <<3, 107, 101, 121>> /\ Len(iter.items) >= 2) =>
              (iter.items[2].kind = "Err" /\ iter.items[2].err = "UnexpectedEnd")
        /\ (iter.data = <<>> /\ Len(iter.items) >= 1) =>
              (iter.items[1].kind = "Err" /\ iter.items[1].err = "UnexpectedEnd")

\* C10 witness: next() was called twice on [0x03,'k','e','y'] and the
\* second call, with the cursor at the end, returned Err(UnexpectedEnd).
C10_Witness ==
    /\ iter.phase = "made"
    /\ iter.data = <<3, 107, 101, 121>>
    /\ Len(iter.items) = 2
    /\ iter.items[2].at = 4
    /\ iter.items[2].err = "UnexpectedEnd"

\* C11: once next() has read a zero length byte and returned None, every
\* later call to next() on the same iterator also returns None, whatever
\* bytes follow the terminator in the buffer.
C11_NoneAfterTerminatorIsFinal ==
    iter.phase = "made" =>
        \A i \in 1..Len(iter.items) :
            (/\ iter.items[i].kind = "None"
             /\ iter.items[i].at < Len(iter.data)
             /\ iter.data[iter.items[i].at + 1] = 0)
            => \A j \in (i + 1)..Len(iter.items) : iter.items[j].kind = "None"

\* C12: for every input buffer, a `for` loop over
\* ConfigurationOption::parse(data) terminates: repeated calls to next()
\* reach None after finitely many calls, also for buffers without a
\* terminator byte or with malformed entries.
C12_ForLoopTerminates == <>(iter.phase = "for_done")

\* the string the i-th call found behind a non-zero length byte, when the
\* buffer holds all of it
StringAt(i) ==
    LET at == iter.items[i].at
    IN  SubSeq(iter.data, at + 2, at + 1 + iter.data[at + 1])

HasString(i) ==
    LET at == iter.items[i].at
    IN  /\ at < Len(iter.data)
        /\ iter.data[at + 1] # 0
        /\ at + 1 + iter.data[at + 1] <= Len(iter.data)
        /\ from_utf8_is_ok(StringAt(i))

\* what precedes the first '=' of s, all of s when it has none
KeyPart(s) ==
    IF \E p \in 1..Len(s) : s[p] = 61
    THEN SubSeq(s, 1, (CHOOSE p \in 1..Len(s) :
                         s[p] = 61 /\ \A k \in 1..(p - 1) : s[k] # 61) - 1)
    ELSE s

\* a key is accepted: non-empty, every byte in 0x20..=0x7E, no '=', and a
\* byte that is neither space nor tab
ValidKey(k) ==
    /\ k # <<>>
    /\ \A i \in 1..Len(k) : k[i] >= 32 /\ k[i] <= 126 /\ k[i] # 61
    /\ \E i \in 1..Len(k) : k[i] # 32 /\ k[i] # 9

\* e is s split at its first '=': no '=' gives key s and no value;
\* otherwise the key is what precedes it and the value all that follows
SplitsAs(s, e) ==
    \/ /\ \A k \in 1..Len(s) : s[k] # 61
       /\ e.key = s
       /\ e.value = <<>>
    \/ \E p \in 1..Len(s) :
          /\ s[p] = 61
          /\ \A k \in 1..(p - 1) : s[k] # 61
          /\ e.key = SubSeq(s, 1, p - 1)
          /\ e.value = <<SubSeq(s, p + 1, Len(s))>>

\* C13: for a length-prefixed string s whose key part is valid, next()
\* yields Ok(entry) with key = s and no value when s has no '=', and
\* otherwise key = the bytes before the first '=' and value = all bytes
\* after it (present and empty when nothing follows; a later '=' stays in
\* the value); b"\x07enabled\x0cversion=1.0a\x00" gives ("enabled", flag),
\* ("version", "1.0a") and then the end of the sequence.
C13_NextSplitsAtFirstEquals ==
    iter.phase = "made" =>
        /\ \A i \in 1..Len(iter.items) :
              (HasString(i) /\ ValidKey(KeyPart(StringAt(i)))) =>
                  (iter.items[i].kind = "Ok" /\ SplitsAs(StringAt(i), iter.items[i].entry))
        /\ (iter.data = EnabledVersion /\ Len(iter.items) >= 1) =>
              /\ iter.items[1].kind = "Ok"
              /\ iter.items[1].entry =
                    [key |-> <<101, 110, 97, 98, 108, 101, 100>>, value |-> <<>>]
        /\ (iter.data = EnabledVersion /\ Len(iter.items) >= 2) =>
              /\ iter.items[2].kind = "Ok"
              /\ iter.items[2].entry =
                    [key |-> <<118, 101, 114, 115, 105, 111, 110>>,
                     value |-> << <<49, 46, 48, 97>> >>]
        /\ (iter.data = EnabledVersion /\ Len(iter.items) >= 3) =>
              iter.items[3].kind = "None"

\* C13 witness: the documented example was read to its end: two entries,
\* the second with the value "1.0a", then None.
C13_Witness ==
    /\ iter.phase = "made"
    /\ iter.data = EnabledVersion
    /\ Len(iter.items) = 3
    /\ HasString(2)
    /\ iter.items[2].entry.value = << <<49, 46, 48, 97>> >>
    /\ iter.items[3].kind = "None"

----------------------------------------------------------------------------
(* Functions without state: key validation (config.rs), the type and       *)
(* protocol checks and the option reads (entries.rs, options.rs), the      *)
(* packed option counts (entries.rs) and the error conversion (error.rs).  *)

\* enum OptionType
OptionTypes ==
    {"Configuration", "LoadBalancing", "IPv4Endpoint", "IPv6Endpoint",
     "IPv4Multicast", "IPv6Multicast", "IPv4SdEndpoint", "IPv6SdEndpoint"}

\* a from_u8 that does not know the SD endpoint options
OptionType_from_u8_without_sd(value) ==
    CASE value = 1 -> "Configuration"
      [] value = 2 -> "LoadBalancing"
      [] value = 4 -> "IPv4Endpoint"
      [] value = 6 -> "IPv6Endpoint"
      [] value = 20 -> "IPv4Multicast"
      [] value = 22 -> "IPv6Multicast"
      [] OTHER -> "None"

\* OptionType::from_u8: the variant, or "None"
OptionType_from_u8(value) ==
    CASE value = 1 -> "Configuration"
      [] value = 2 -> "LoadBalancing"
      [] value = 4 -> "IPv4Endpoint"
      [] value = 6 -> "IPv6Endpoint"
      [] value = 20 -> "IPv4Multicast"
      [] value = 22 -> "IPv6Multicast"
      [] value = 36 -> "IPv4SdEndpoint"
      [] value = 38 -> "IPv6SdEndpoint"
      [] OTHER -> "None"

\* a length read least significant byte first
OptionHeader_length_little_endian(buf) ==
    LET bytes == At(buf, option_header.LENGTH)
    IN  bytes[2] * 256 + bytes[1]

\* OptionHeader::length on a view that holds bytes 0..2
OptionHeader_length(buf) == read_u16(At(buf, option_header.LENGTH))

\* OptionHeader::option_type on a view that holds byte 2
OptionHeader_option_type(buf) == At(buf, option_header.TYPE)[1]

\* OptionHeader::check_option_type: Ok, or Err(InvalidOptionType(type_val))
OptionHeader_check_option_type(buf) ==
    LET type_val == OptionHeader_option_type(buf)
    IN  IF OptionType_from_u8(type_val) # "None"
        THEN OptionResult("Ok", type_val, <<>>)
        ELSE OptionResult("InvalidOptionType", type_val, <<>>)

\* the u8 operators & and |, bit by bit
RECURSIVE BitAnd(_, _)
BitAnd(a, b) ==
    IF a = 0 \/ b = 0 THEN 0
    ELSE (a % 2) * (b % 2) + 2 * BitAnd(a \div 2, b \div 2)

RECURSIVE BitOr(_, _)
BitOr(a, b) ==
    IF a = 0 THEN b
    ELSE IF b = 0 THEN a
    ELSE (IF a % 2 = 1 \/ b % 2 = 1 THEN 1 ELSE 0) + 2 * BitOr(a \div 2, b \div 2)

\* a from_options with the first run in the low nibble
NumberOfOptions_from_options_swapped(options1, options2) ==
    LET opt1 == BitAnd(options1, 15)
        opt2 == BitAnd(options2, 15)
    IN  BitOr((opt2 * 16) % 256, opt1)

\* NumberOfOptions::from_options: (opt1 << 4) | opt2 on u8, the wrapped byte
NumberOfOptions_from_options(options1, options2) ==
    LET opt1 == BitAnd(options1, 15)
        opt2 == BitAnd(options2, 15)
    IN  BitOr((opt1 * 16) % 256, opt2)

\* NumberOfOptions::options1: (self.0 >> 4) & 0x0F
NumberOfOptions_options1(self) == BitAnd(self \div 16, 15)

\* NumberOfOptions::options2: self.0 & 0x0F
NumberOfOptions_options2(self) == BitAnd(self, 15)

\* NumberOfOptions::as_u8
NumberOfOptions_as_u8(self) == self

\* enum ConfigError
ConfigErrors ==
    {"InvalidKey", "KeyStartsWithEquals", "UnexpectedEnd", "LengthOverflow",
     "BufferTooSmall", "InvalidUtf8"}

\* the variants of enum Error that carry no ConfigError
ErrorVariants ==
    {"BufferTooShort", "InvalidEntryType", "InvalidOptionType", "InvalidProtocol",
     "LengthOverflow"}

\* a conversion that maps LengthOverflow to the variant of the same name
Error_from_same_name(err) ==
    IF err = "LengthOverflow" THEN [variant |-> "LengthOverflow", inner |-> "none"]
    ELSE [variant |-> "ConfigurationError", inner |-> err]

\* impl From<ConfigError> for Error
Error_from(err) == [variant |-> "ConfigurationError", inner |-> err]

----------------------------------------------------------------------------
(* One call of one of these functions on one argument.                     *)

MaxKeyLen == 3

\* tab, 0x1F, space, '=', 'k', '~' and 0x7F
KeyAlphabet == {9, 31, 32, 61, 107, 126, 127}

\* strings over the alphabet, and e-acute alone and after 'k'
KeyStrings == SeqsUpTo(KeyAlphabet, MaxKeyLen) \cup {<<195, 169>>, <<107, 195, 169>>}

\* n bytes, the byte at index i being base + i, except the byte v at index at
View(n, base, at, v) == [i \in 1..n |-> IF i = at THEN v ELSE base + i]

\* 16-byte entries with every byte value at offset 0
EntryViews == {View(16, base, 1, v) : base \in {16, 160}, v \in 0..255}

\* [0x00,0x09,0x04,0x00, 192,168,1,1, 0, 0x11, 0x77,0x1A]
IPv4EndpointExample == <<0, 9, 4, 0, 192, 168, 1, 1, 0, 17, 119, 26>>

\* option headers with every byte value at offset 2, IPv4 endpoint options
\* of 12 and 13 bytes with every byte value at offset 9, IPv6 endpoint
\* options with every byte value at offset 21, and the example
OptionViews ==
    {View(4, base, 3, v) : base \in {16, 160}, v \in 0..255}
      \cup {View(n, base, 10, v) : n \in {12, 13}, base \in {16, 160}, v \in 0..255}
      \cup {View(24, base, 22, v) : base \in {16, 160}, v \in 0..255}
      \cup {IPv4EndpointExample}

PureInputs ==
    {[kind |-> "key", arg |-> k] : k \in KeyStrings}
      \cup {[kind |-> "entry", arg |-> b] : b \in EntryViews}
      \cup {[kind |-> "u8", arg |-> v] : v \in 0..255}
      \cup {[kind |-> "option_type", arg |-> t] : t \in OptionTypes}
      \cup {[kind |-> "option", arg |-> b] : b \in OptionViews}
      \cup {[kind |-> "config_error", arg |-> c] : c \in ConfigErrors}

PureInit ==
    /\ PacketIdle
    /\ entry = NoEntry
    /\ option = NoOption
    /\ ser = NoSer
    /\ iter = NoIter
    /\ pure \in {[NoPure EXCEPT !.kind = i.kind, !.arg = i.arg] : i \in PureInputs}
    /\ calls = <<>>

nonPureVars == <<build, buffer, pkt, check_result, last, repr_in, entry, option, ser, iter, calls>>

\* the call fn(arg) on an argument of the kind the function takes
Apply(kind, fn, ret) ==
    /\ pure.kind = kind
    /\ pure.fn = "none"
    /\ pure' = [pure EXCEPT !.fn = fn, !.ret = ret]
    /\ UNCHANGED nonPureVars

\* the view holds the n bytes its new_checked asks for
Holds(n) == pure.kind = "option" /\ Len(pure.arg) >= n

PureNext ==
    \/ \E value \in ValueInputs :
         Apply("key", "ConfigEntry::new", ConfigEntry_new(pure.arg, value))
    \/ Apply("key", "ConfigEntry::from_str", ConfigEntry_from_str(pure.arg))
    \/ Apply("entry", "ServiceEntry::check_entry_type",
             ServiceEntry_check_entry_type(pure.arg))
    \/ Apply("entry", "EventGroupEntry::check_entry_type",
             EventGroupEntry_check_entry_type(pure.arg))
    \/ Apply("u8", "OptionType::from_u8", OptionType_from_u8(pure.arg))
    \/ Apply("option_type", "OptionType::as_u8", OptionType_as_u8(pure.arg))
    \/ Apply("option", "OptionHeader::length", OptionHeader_length(pure.arg))
    \/ Apply("option", "OptionHeader::option_type", OptionHeader_option_type(pure.arg))
    \/ Apply("option", "OptionHeader::check_option_type",
             OptionHeader_check_option_type(pure.arg))
    \/ /\ Holds(IPv4EndpointOptionRepr_buffer_len)
       /\ Apply("option", "IPv4EndpointOption::check_protocol",
                IPv4EndpointOption_check_protocol(pure.arg))
    \/ /\ Holds(IPv4EndpointOptionRepr_buffer_len)
       /\ Apply("option", "IPv4EndpointOptionRepr::parse",
                IPv4EndpointOptionRepr_parse(pure.arg))
    \/ /\ Holds(IPv6EndpointOptionRepr_buffer_len)
       /\ Apply("option", "IPv6EndpointOption::check_protocol",
                IPv6EndpointOption_check_protocol(pure.arg))
    \/ /\ Holds(IPv6EndpointOptionRepr_buffer_len)
       /\ Apply("option", "IPv6EndpointOptionRepr::parse",
                IPv6EndpointOptionRepr_parse(pure.arg))
    \/ Apply("config_error", "Error::from", Error_from(pure.arg))

SpecPure == PureInit /\ [][PureNext]_vars

\* NumberOfOptions::from_options(a, b) for every a and b, then the three
\* reads of the value it returned
NumberOfOptionsInit ==
    /\ PacketIdle
    /\ entry = NoEntry
    /\ option = NoOption
    /\ ser = NoSer
    /\ iter = NoIter
    /\ pure \in {[NoPure EXCEPT !.kind = "u8u8", !.arg = <<a, b>>] :
                   a \in 0..255, b \in 0..255}
    /\ calls = <<>>

FromOptions ==
    LET n == NumberOfOptions_from_options(pure.arg[1], pure.arg[2])
    IN  Apply("u8u8", "NumberOfOptions::from_options",
              [options1 |-> NumberOfOptions_options1(n),
               options2 |-> NumberOfOptions_options2(n),
               as_u8 |-> NumberOfOptions_as_u8(n)])

SpecNumberOfOptions == NumberOfOptionsInit /\ [][FromOptions]_vars

----------------------------------------------------------------------------
(* Claims about the functions without state, checked under SpecPure and    *)
(* SpecNumberOfOptions.                                                    *)

\* C14: a key is accepted iff it is non-empty, every byte lies in
\* 0x20..=0x7E, no byte is '=' and some byte is not whitespace;
\* ConfigEntry::from_str returns Err(KeyStartsWithEquals) exactly when the
\* first byte of the string is '=' and Err(InvalidKey) for every other
\* rejected input, the empty string included; ConfigEntry::new, flag and
\* with_value return Err(InvalidKey) for every rejected key.
C14_KeyAcceptedIffValid ==
    /\ pure.fn = "ConfigEntry::new" =>
          /\ pure.ret.outcome = IF ValidKey(pure.arg) THEN "Ok" ELSE "InvalidKey"
          /\ pure.ret.outcome = "Ok" => pure.ret.entry.key = pure.arg
    /\ pure.fn = "ConfigEntry::from_str" =>
          /\ pure.ret.outcome =
                IF pure.arg # <<>> /\ pure.arg[1] = 61 THEN "KeyStartsWithEquals"
                ELSE IF ValidKey(KeyPart(pure.arg)) THEN "Ok"
                ELSE "InvalidKey"
          /\ pure.ret.outcome = "Ok" => pure.ret.entry.key = KeyPart(pure.arg)

\* C14 witness: ConfigEntry::new refused a key of two spaces, every byte of
\* which is printable.
C14_Witness ==
    /\ pure.fn = "ConfigEntry::new"
    /\ pure.arg = <<32, 32>>
    /\ pure.ret.outcome = "InvalidKey"

\* C15: for every byte v at offset 0 of a 16-byte entry,
\* ServiceEntry::check_entry_type returns Ok iff v is 0x00 or 0x01 and
\* EventGroupEntry::check_entry_type returns Ok iff v is 0x06 or 0x07; each
\* returns Err(InvalidEntryType(v)), carrying the byte read, otherwise.
C15_CheckEntryTypeByFamily ==
    /\ pure.fn = "ServiceEntry::check_entry_type" =>
          /\ pure.ret.outcome = IF pure.arg[1] \in {0, 1} THEN "Ok" ELSE "InvalidEntryType"
          /\ pure.ret.outcome # "Ok" => pure.ret.byte = pure.arg[1]
    /\ pure.fn = "EventGroupEntry::check_entry_type" =>
          /\ pure.ret.outcome = IF pure.arg[1] \in {6, 7} THEN "Ok" ELSE "InvalidEntryType"
          /\ pure.ret.outcome # "Ok" => pure.ret.byte = pure.arg[1]

\* C15 witness: the service check refused the Subscribe type 0x06 and
\* reported that byte.
C15_Witness ==
    /\ pure.fn = "ServiceEntry::check_entry_type"
    /\ pure.arg[1] = 6
    /\ pure.ret.outcome = "InvalidEntryType"
    /\ pure.ret.byte = 6

\* the eight discriminants 0x01, 0x02, 0x04, 0x06, 0x14, 0x16, 0x24, 0x26
Discriminants == {1, 2, 4, 6, 20, 22, 36, 38}

\* C16: for every byte v at offset 2 of an option header,
\* check_option_type returns Ok iff v is one of the eight discriminants and
\* Err(InvalidOptionType(v)) otherwise; OptionType::from_u8 and as_u8 are
\* inverse on those eight values.
C16_CheckOptionTypeEightDiscriminants ==
    /\ pure.fn = "OptionHeader::check_option_type" =>
          /\ pure.ret.outcome =
                IF pure.arg[3] \in Discriminants THEN "Ok" ELSE "InvalidOptionType"
          /\ pure.ret.outcome # "Ok" => pure.ret.byte = pure.arg[3]
    /\ pure.fn = "OptionType::from_u8" =>
          /\ pure.ret # "None" <=> pure.arg \in Discriminants
          /\ pure.ret # "None" => OptionType_as_u8(pure.ret) = pure.arg
    /\ pure.fn = "OptionType::as_u8" =>
          /\ pure.ret \in Discriminants
          /\ OptionType_from_u8(pure.ret) = pure.arg

\* C16 witness: a header with the type byte 0x26 passed the check.
C16_Witness ==
    /\ pure.fn = "OptionHeader::check_option_type"
    /\ Len(pure.arg) = 4
    /\ pure.arg[3] = 38
    /\ pure.ret.outcome = "Ok"

\* Ok for TCP (0x06) and UDP (0x11), Err(InvalidProtocol(p)) otherwise
ProtocolChecked(p) ==
    /\ pure.ret.outcome = IF p \in {6, 17} THEN "Ok" ELSE "InvalidProtocol"
    /\ pure.ret.outcome # "Ok" => pure.ret.byte = p

\* C17: for every byte p at offset 9 of an IPv4 endpoint option or offset
\* 21 of an IPv6 endpoint option, check_protocol returns Ok iff p is 0x06
\* or 0x11 and Err(InvalidProtocol(p)) otherwise, and the Repr's parse
\* returns Err(InvalidProtocol(p)) in the same cases and Ok otherwise.
C17_CheckProtocolTcpOrUdp ==
    /\ pure.fn \in {"IPv4EndpointOption::check_protocol", "IPv4EndpointOptionRepr::parse"}
          => ProtocolChecked(pure.arg[10])
    /\ pure.fn \in {"IPv6EndpointOption::check_protocol", "IPv6EndpointOptionRepr::parse"}
          => ProtocolChecked(pure.arg[22])

\* C17 witness: the parse of an IPv6 endpoint option with protocol byte
\* 0x07 returned Err(InvalidProtocol(0x07)).
C17_Witness ==
    /\ pure.fn = "IPv6EndpointOptionRepr::parse"
    /\ pure.arg[22] = 7
    /\ pure.ret.outcome = "InvalidProtocol"
    /\ pure.ret.byte = 7

\* C18: for all a, b in 0..=255, from_options(a, b).options1() = a & 0x0F,
\* .options2() = b & 0x0F and .as_u8() = ((a & 0x0F) << 4) | (b & 0x0F).
C18_FromOptionsPacksNibbles ==
    pure.fn = "NumberOfOptions::from_options" =>
        /\ pure.ret.options1 = pure.arg[1] % 16
        /\ pure.ret.options2 = pure.arg[2] % 16
        /\ pure.ret.as_u8 = (pure.arg[1] % 16) * 16 + (pure.arg[2] % 16)

\* C18 witness: from_options(0xFF, 0x12) was packed to 0xF2.
C18_Witness ==
    /\ pure.fn = "NumberOfOptions::from_options"
    /\ pure.arg = <<255, 18>>
    /\ pure.ret.as_u8 = 242
    /\ pure.ret.options1 = 15

\* C19: for an option buffer of at least 12 bytes, OptionHeader reads the
\* length as the big-endian u16 at bytes 0..2 and the type at byte 2, and
\* IPv4EndpointOption reads the address from bytes 4..8, the protocol from
\* byte 9 and the port as the big-endian u16 at bytes 10..12; the example
\* bytes pass check_option_type as IPv4Endpoint and parse to 192.168.1.1,
\* UDP, port 30490.
C19_OptionReadsAtFixedOffsets ==
    (pure.kind = "option" /\ Len(pure.arg) >= 12) =>
        /\ pure.fn = "OptionHeader::length" =>
              pure.ret = pure.arg[1] * 256 + pure.arg[2]
        /\ pure.fn = "OptionHeader::option_type" => pure.ret = pure.arg[3]
        /\ (pure.fn = "IPv4EndpointOptionRepr::parse" /\ pure.ret.outcome = "Ok") =>
              /\ pure.ret.repr.ipv4_address = SubSeq(pure.arg, 5, 8)
              /\ pure.ret.repr.protocol = (IF pure.arg[10] = 6 THEN "TCP" ELSE "UDP")
              /\ pure.ret.repr.port = pure.arg[11] * 256 + pure.arg[12]
        /\ pure.arg = IPv4EndpointExample =>
              /\ pure.fn = "OptionHeader::length" => pure.ret = 9
              /\ pure.fn = "OptionHeader::option_type" =>
                    OptionType_from_u8(pure.ret) = "IPv4Endpoint"
              /\ pure.fn = "OptionHeader::check_option_type" => pure.ret.outcome = "Ok"
              /\ pure.fn = "IPv4EndpointOptionRepr::parse" =>
                    /\ pure.ret.outcome = "Ok"
                    /\ pure.ret.repr = [ipv4_address |-> <<192, 168, 1, 1>>,
                                        protocol |-> "UDP", port |-> 30490]

\* C19 witness: the example bytes were parsed to port 30490.
C19_Witness ==
    /\ pure.fn = "IPv4EndpointOptionRepr::parse"
    /\ pure.arg = IPv4EndpointExample
    /\ pure.ret.outcome = "Ok"
    /\ pure.ret.repr.port = 30490

\* C20: for every ConfigError c, Error::from(c) is ConfigurationError(c);
\* distinct ConfigError values give distinct Error values, and none gives
\* another variant of Error (LengthOverflow gives
\* ConfigurationError(LengthOverflow), not Error::LengthOverflow).
C20_ConfigErrorEmbedsOneToOne ==
    pure.fn = "Error::from" =>
        /\ pure.ret.variant = "ConfigurationError"
        /\ pure.ret.variant \notin ErrorVariants
        /\ pure.ret.inner = pure.arg
        /\ \A c \in ConfigErrors : Error_from(c) = pure.ret => c = pure.arg

\* C20 witness: ConfigError::LengthOverflow was converted and came out
\* wrapped.
C20_Witness ==
    /\ pure.fn = "Error::from"
    /\ pure.arg = "LengthOverflow"
    /\ pure.ret = [variant |-> "ConfigurationError", inner |-> "LengthOverflow"]

----------------------------------------------------------------------------
(* Claims about serialize's output, checked under SpecConfig.              *)

\* the wire form of entries: for each, a length byte, the key, and '=' and
\* the value when there is one; then the terminator
RECURSIVE WireOf(_)
WireOf(es) ==
    IF es = <<>> THEN <<0>>
    ELSE LET e == Head(es)
         IN  <<WireSizeOf(e)>> \o e.key
               \o (IF e.value = <<>> THEN <<>> ELSE <<61>> \o e.value[1])
               \o WireOf(Tail(es))

\* C21: when serialize succeeds it returns wire_size(entries) = 1 + the sum
\* of (1 + entry.wire_size()); the last byte written is the 0x00
\* terminator; every entry is written as a length byte equal to its
\* wire_size, in 1..=255, then the key, then '=' and the value when there
\* is one, so no 0x00 length byte precedes the terminator; with no entries
\* it writes the single byte 0x00 and returns 1.
C21_SerializeReturnsWireSize ==
    (ser.phase = "done" /\ ser.result.outcome = "Ok") =>
        /\ ser.result.pos = TotalWireSize(ser.entries)
        /\ pure.fn = "ConfigurationOption::wire_size" => pure.ret = ser.result.pos
        /\ ser.result.buf[ser.result.pos] = 0
        /\ SubSeq(ser.result.buf, 1, ser.result.pos) = WireOf(ser.entries)
        /\ \A i \in 1..Len(ser.entries) :
              WireSizeOf(ser.entries[i]) >= 1 /\ WireSizeOf(ser.entries[i]) <= 255
        /\ ser.entries = <<>> => (ser.result.pos = 1 /\ ser.result.buf[1] = 0)

\* C21 witness: a flag "k" and "k=" were written as 6 bytes, the number
\* wire_size gives, into a buffer of that very length.
C21_Witness ==
    /\ ser.phase = "done"
    /\ ser.result.outcome = "Ok"
    /\ ser.entries = <<[key |-> <<107>>, value |-> <<>>],
                       [key |-> <<107>>, value |-> << <<>> >>]>>
    /\ Len(ser.buf) = 6
    /\ pure.fn = "ConfigurationOption::wire_size"
    /\ pure.ret = 6
    /\ ser.result.buf = <<1, 107, 2, 107, 61, 0>>

----------------------------------------------------------------------------
(* packet.rs: the write path, call by call, on Packet::new_unchecked over  *)
(* a mutable buffer with any prior contents.                               *)

\* the most setter calls made on one packet or bit field
MaxSetterCalls == 3

\* entries_array_mut(): the range of the buffer the returned slice covers
entries_array_mut(buf) ==
    LET len == entries_length(buf)
        range == ENTRIES_ARRAY(len.num)
    IN  IF len.panic THEN [panic |-> TRUE, range |-> LENGTH]
        ELSE [panic |-> Slice(buf, range).panic, range |-> range]

\* an options_array_mut() that takes the options array to follow the
\* entries array directly
options_array_mut_before_length_field(buf) ==
    LET entries_len == entries_length(buf)
        options_len == IF entries_len.panic THEN Val(Panicked) ELSE options_length(buf)
        start == ENTRIES_ARRAY(entries_len.num).end
        range == [start |-> start, end |-> UsizeAdd(start, options_len.num)]
    IN  IF options_len.panic THEN [panic |-> TRUE, range |-> LENGTH]
        ELSE [panic |-> Slice(buf, range).panic, range |-> range]

\* options_array_mut(): the range of the buffer the returned slice covers
options_array_mut(buf) ==
    LET entries_len == entries_length(buf)
        options_len == IF entries_len.panic THEN Val(Panicked) ELSE options_length(buf)
        range == OPTIONS_ARRAY(entries_len.num, options_len.num)
    IN  IF options_len.panic THEN [panic |-> TRUE, range |-> LENGTH]
        ELSE [panic |-> Slice(buf, range).panic, range |-> range]

\* the u32 lengths given to the setters: 0, 1, 2 and 0xFFFFFFF8
WriteLengths == {Num(n) : n \in 0..MaxEntriesLen} \cup {read_u32(<<255, 255, 255, 248>>)}

\* the buffers the packet is built in: zeroed or holding earlier bytes
WriteBuffers ==
    UNION {{[i \in 1..n |-> 0], Pattern(0, n)} :
             n \in 0..(12 + MaxEntriesLen + MaxOptionsLen + MaxTrailing)}

WriteInit ==
    /\ build \in Builds
    /\ buffer \in WriteBuffers
    /\ pkt = "unchecked"
    /\ check_result = "none"
    /\ last = NoCall
    /\ repr_in = NoRepr
    /\ entry = NoEntry
    /\ option = NoOption
    /\ ser = NoSer
    /\ iter = NoIter
    /\ pure = NoPure
    /\ calls = <<>>

\* a call on the packet that returned: what it was given, the range of the
\* slice it wrote or returned, and the buffer after it.  A call that
\* panicked unwinds and leaves no packet to call.
Wrote(op, arg, range, st) ==
    /\ pkt = "unchecked"
    /\ Len(calls) < MaxSetterCalls
    /\ IF st.panic
       THEN /\ pkt' = "panicked"
            /\ UNCHANGED <<buffer, calls>>
       ELSE /\ buffer' = st.buf
            /\ calls' = Append(calls, [op |-> op, arg |-> arg, range |-> range,
                                       buf |-> st.buf])
            /\ UNCHANGED pkt
    /\ UNCHANGED <<build, check_result, last, repr_in, entry, option, ser, iter, pure>>

\* packet.set_entries_length(length)
SetEntriesLength ==
    \E length \in WriteLengths :
       Wrote("set_entries_length", length, LENGTH, set_entries_length(buffer, length))

\* packet.set_options_length(length)
SetOptionsLength ==
    \E length \in WriteLengths :
       Wrote("set_options_length", length,
             OPTIONS_LENGTH(entries_length(buffer).num),
             set_options_length(buffer, length))

\* packet.entries_array_mut(), every byte of the slice then written
EntriesArrayMut ==
    LET view == entries_array_mut(buffer)
        n == IF view.panic THEN 0 ELSE Len(Slice(buffer, view.range).bytes)
    IN  Wrote("entries_array_mut", Num(n), view.range,
              IF view.panic THEN [panic |-> TRUE, buf |-> buffer]
              ELSE copy_to_entries_array_mut(buffer, Pattern(160, n)))

\* packet.options_array_mut(), every byte of the slice then written
OptionsArrayMut ==
    LET view == options_array_mut(buffer)
        n == IF view.panic THEN 0 ELSE Len(Slice(buffer, view.range).bytes)
    IN  Wrote("options_array_mut", Num(n), view.range,
              IF view.panic THEN [panic |-> TRUE, buf |-> buffer]
              ELSE copy_to_options_array_mut(buffer, Pattern(192, n)))

WriteNext ==
    \/ SetEntriesLength
    \/ SetOptionsLength
    \/ EntriesArrayMut
    \/ OptionsArrayMut

SpecPacketWrite == WriteInit /\ [][WriteNext]_vars

----------------------------------------------------------------------------
(* Claims about the packet write path, checked under SpecPacketWrite.      *)

\* calls i and i + 1 are set_entries_length(n) then set_options_length(m)
\* and the buffer has at least 12 + n + m bytes
LengthsWritten(i) ==
    /\ i + 1 <= Len(calls)
    /\ calls[i].op = "set_entries_length"
    /\ calls[i + 1].op = "set_options_length"
    /\ calls[i].arg.hi = 0 /\ calls[i + 1].arg.hi = 0
    /\ 12 + calls[i].arg.lo + calls[i + 1].arg.lo <= Len(buffer)

RangeIs(range, a, b) == range = [start |-> Num(a), end |-> Num(b)]

\* a and b differ at most in bytes from + 1 .. to
SameOutside(a, b, from, to) ==
    /\ Len(a) = Len(b)
    /\ \A j \in 1..Len(a) : (j <= from \/ j > to) => a[j] = b[j]

\* C22: after set_entries_length(n) then set_options_length(m) on a buffer
\* of at least 12 + n + m bytes, entries_length() is n, options_length() is
\* m, entries_array_mut() is bytes 8..8+n and options_array_mut() is bytes
\* 12+n..12+n+m, a view written next changes no byte outside itself, so
\* neither the other view nor a length field.  A set_entries_length(n')
\* writes bytes 4..8 only, whatever was laid out before, and from then on
\* options_length() is the u32 at offset 8+n' (a panic when the buffer ends
\* before 12+n').
C22_ViewsFollowStoredLengths ==
    /\ \A i \in 1..Len(calls) :
         LengthsWritten(i) =>
           LET n == calls[i].arg.lo
               m == calls[i + 1].arg.lo
               buf == calls[i + 1].buf
           IN  /\ entries_length(buf) = Val(Num(n))
               /\ options_length(buf) = Val(Num(m))
               /\ entries_array_mut(buf).panic = FALSE
               /\ RangeIs(entries_array_mut(buf).range, 8, 8 + n)
               /\ options_array_mut(buf).panic = FALSE
               /\ RangeIs(options_array_mut(buf).range, 12 + n, 12 + n + m)
               /\ i + 2 <= Len(calls) /\ calls[i + 2].op = "entries_array_mut"
                    => /\ RangeIs(calls[i + 2].range, 8, 8 + n)
                       /\ SameOutside(buf, calls[i + 2].buf, 8, 8 + n)
                       /\ SubSeq(calls[i + 2].buf, 9, 8 + n) = Pattern(160, n)
               /\ i + 2 <= Len(calls) /\ calls[i + 2].op = "options_array_mut"
                    => /\ RangeIs(calls[i + 2].range, 12 + n, 12 + n + m)
                       /\ SameOutside(buf, calls[i + 2].buf, 12 + n, 12 + n + m)
                       /\ SubSeq(calls[i + 2].buf, 13 + n, 12 + n + m) = Pattern(192, m)
    /\ \A i \in 2..Len(calls) :
         calls[i].op = "set_entries_length" =>
           LET buf == calls[i].buf
               at == calls[i].arg.lo + 8
           IN  /\ SameOutside(calls[i - 1].buf, buf, 4, 8)
               /\ SubSeq(buf, 5, 8) = write_u32(calls[i].arg)
               /\ calls[i].arg.hi = 0 =>
                    options_length(buf) =
                      IF at + 4 <= Len(buf) THEN Val(read_u32(SubSeq(buf, at + 1, at + 4)))
                      ELSE Val(Panicked)

\* set_entries_length(1), set_options_length(2), set_entries_length(2) on 16
\* bytes: after the second call the lengths read 1 and 2, after the third
\* options_length() is no longer 2
C22_Witness ==
    /\ Len(calls) = 3
    /\ Len(buffer) = 16
    /\ LengthsWritten(1)
    /\ calls[1].arg = Num(1) /\ calls[2].arg = Num(2)
    /\ options_length(calls[2].buf) = Val(Num(2))
    /\ calls[3].op = "set_entries_length" /\ calls[3].arg = Num(2)
    /\ options_length(buffer) # Val(Num(2))

----------------------------------------------------------------------------
(* entries.rs, options.rs: the packed fields NumberOfOptions (u8),         *)
(* ReservedAndCounter (u16) and DiscardableFlag (u8), and their setters.   *)
(* pure.arg is the raw value the field was made from (from_u8, from_u16),  *)
(* pure.ret the raw value it holds now.                                    *)

\* NumberOfOptions::set_options1: self.0 = (self.0 & 0x0F) | (masked << 4)
NumberOfOptions_set_options1(self, value) ==
    LET masked == BitAnd(value, 15)
    IN  BitOr(BitAnd(self, 15), (masked * 16) % 256)

\* a set_options2 that does not mask its argument
NumberOfOptions_set_options2_unmasked(self, value) ==
    BitOr(BitAnd(self, 240), value)

\* NumberOfOptions::set_options2: self.0 = (self.0 & 0xF0) | masked
NumberOfOptions_set_options2(self, value) ==
    LET masked == BitAnd(value, 15)
    IN  BitOr(BitAnd(self, 240), masked)

\* ReservedAndCounter::reserved: (self.0 >> 4) & 0x0FFF
ReservedAndCounter_reserved(self) == BitAnd(self \div 16, 4095)

\* ReservedAndCounter::counter: (self.0 & 0x0F) as u8
ReservedAndCounter_counter(self) == BitAnd(self, 15)

\* ReservedAndCounter::set_counter: self.0 = (self.0 & 0xFFF0) | masked
ReservedAndCounter_set_counter(self, value) ==
    LET masked == BitAnd(value, 15)
    IN  BitOr(BitAnd(self, 65520), masked)

\* DiscardableFlag::is_discardable: (self.0 & 0x80) != 0
DiscardableFlag_is_discardable(self) == BitAnd(self, 128) # 0

\* DiscardableFlag::reserved: self.0 & 0x7F
DiscardableFlag_reserved(self) == BitAnd(self, 127)

\* DiscardableFlag::set_discardable: self.0 |= 0x80, or self.0 &= 0x7F
DiscardableFlag_set_discardable(self, discardable) ==
    IF discardable THEN BitOr(self, 128) ELSE BitAnd(self, 127)

\* the raw values a field starts from
RawFields ==
    {[kind |-> "NumberOfOptions", raw |-> r] : r \in {0, 90, 165, 255}}
      \cup {[kind |-> "ReservedAndCounter", raw |-> r] : r \in {0, 15, 23130, 65520, 65535}}
      \cup {[kind |-> "DiscardableFlag", raw |-> r] : r \in {0, 90, 128, 165, 255}}

\* the u8 arguments of the setters
SetterArguments == {0, 1, 9, 15, 16, 90, 240, 255}

BitFieldInit ==
    /\ PacketIdle
    /\ entry = NoEntry
    /\ option = NoOption
    /\ ser = NoSer
    /\ iter = NoIter
    /\ pure \in {[kind |-> f.kind, arg |-> f.raw, fn |-> "none", ret |-> f.raw] :
                   f \in RawFields}
    /\ calls = <<>>

\* one setter call on the field: the raw value after it
Set(kind, op, arg, raw) ==
    /\ pure.kind = kind
    /\ Len(calls) < MaxSetterCalls
    /\ pure' = [pure EXCEPT !.fn = op, !.ret = raw]
    /\ calls' = Append(calls, [op |-> op, arg |-> arg, raw |-> raw])
    /\ UNCHANGED <<build, buffer, pkt, check_result, last, repr_in, entry, option, ser, iter>>

SetOptions1 ==
    \E v \in SetterArguments :
       Set("NumberOfOptions", "set_options1", v, NumberOfOptions_set_options1(pure.ret, v))

SetOptions2 ==
    \E v \in SetterArguments :
       Set("NumberOfOptions", "set_options2", v, NumberOfOptions_set_options2(pure.ret, v))

SetCounter ==
    \E v \in SetterArguments :
       Set("ReservedAndCounter", "set_counter", v, ReservedAndCounter_set_counter(pure.ret, v))

SetDiscardable ==
    \E b \in BOOLEAN :
       Set("DiscardableFlag", "set_discardable", b, DiscardableFlag_set_discardable(pure.ret, b))

BitFieldNext ==
    \/ SetOptions1
    \/ SetOptions2
    \/ SetCounter
    \/ SetDiscardable

SpecBitFields == BitFieldInit /\ [][BitFieldNext]_vars

----------------------------------------------------------------------------
(* Claims about the packed fields, checked under SpecBitFields.            *)

\* the raw value before call i
RawBefore(i) == IF i = 1 THEN pure.arg ELSE calls[i - 1].raw

\* the calls of setter op so far
CallsOf(op) == {i \in 1..Len(calls) : calls[i].op = op}

\* the call of setter op made last
LastOf(op) == CHOOSE i \in CallsOf(op) : \A j \in CallsOf(op) : j <= i

\* C23: set_options1(v) makes options1() v & 0x0F and keeps options2();
\* set_options2(v) makes options2() v & 0x0F and keeps options1();
\* set_counter(v) makes counter() v & 0x0F and keeps the 12 reserved bits;
\* set_discardable(b) makes is_discardable() b and keeps the 7 reserved
\* bits.  After any sequence of calls each sub-field is the masked value
\* last set for it, or what the field started with.
C23_SettersKeepTheOtherSubField ==
    /\ \A i \in 1..Len(calls) :
         LET before == RawBefore(i)
             after == calls[i].raw
             v == calls[i].arg
         IN  /\ calls[i].op = "set_options1"
                  => /\ NumberOfOptions_options1(after) = v % 16
                     /\ NumberOfOptions_options2(after) = NumberOfOptions_options2(before)
                     /\ after = (v % 16) * 16 + (before % 16)
             /\ calls[i].op = "set_options2"
                  => /\ NumberOfOptions_options2(after) = v % 16
                     /\ NumberOfOptions_options1(after) = NumberOfOptions_options1(before)
                     /\ after = (before \div 16) * 16 + (v % 16)
             /\ calls[i].op = "set_counter"
                  => /\ ReservedAndCounter_counter(after) = v % 16
                     /\ ReservedAndCounter_reserved(after) = ReservedAndCounter_reserved(before)
                     /\ after = (before \div 16) * 16 + (v % 16)
             /\ calls[i].op = "set_discardable"
                  => /\ DiscardableFlag_is_discardable(after) = v
                     /\ DiscardableFlag_reserved(after) = DiscardableFlag_reserved(before)
                     /\ after = (IF v THEN 128 ELSE 0) + (before % 128)
    /\ pure.kind = "NumberOfOptions"
         => /\ NumberOfOptions_options1(pure.ret) =
                 IF CallsOf("set_options1") = {} THEN pure.arg \div 16
                 ELSE calls[LastOf("set_options1")].arg % 16
            /\ NumberOfOptions_options2(pure.ret) =
                 IF CallsOf("set_options2") = {} THEN pure.arg % 16
                 ELSE calls[LastOf("set_options2")].arg % 16
    /\ pure.kind = "ReservedAndCounter"
         => /\ ReservedAndCounter_reserved(pure.ret) = pure.arg \div 16
            /\ ReservedAndCounter_counter(pure.ret) =
                 IF calls = <<>> THEN pure.arg % 16 ELSE calls[Len(calls)].arg % 16
    /\ pure.kind = "DiscardableFlag"
         => /\ DiscardableFlag_reserved(pure.ret) = pure.arg % 128
            /\ DiscardableFlag_is_discardable(pure.ret) =
                 IF calls = <<>> THEN pure.arg >= 128 ELSE calls[Len(calls)].arg

\* NumberOfOptions 0xA5 after set_options2(0xF0), set_options1(0x5A),
\* set_options2(0xFF): options1() is 0xA and options2() 0xF
C23_Witness ==
    /\ pure.kind = "NumberOfOptions"
    /\ pure.arg = 165
    /\ Len(calls) = 3
    /\ calls[1].op = "set_options2" /\ calls[1].arg = 240 /\ calls[1].raw = 160
    /\ calls[2].op = "set_options1" /\ calls[2].arg = 90
    /\ calls[3].op = "set_options2" /\ calls[3].arg = 255
    /\ pure.ret = 175

----------------------------------------------------------------------------
(* entries.rs: the setters and getters of ServiceEntry and EventGroupEntry *)
(* call by call, on new_unchecked over 16 bytes.  entry.view is the type   *)
(* of the view, entry.input the bytes it was made over.                    *)

\* the setter of ServiceEntry named set_<field>: the range it writes and
\* the bytes it puts there
ServiceEntry_set(field, value) ==
    CASE field = "entry_type" -> Write(service_entry.TYPE, <<value>>)
      [] field = "index_first_option_run" ->
           Write(service_entry.INDEX_FIRST_OPTION_RUN, <<value>>)
      [] field = "index_second_option_run" ->
           Write(service_entry.INDEX_SECOND_OPTION_RUN, <<value>>)
      [] field = "number_of_options" ->
           Write(service_entry.NUMBER_OF_OPTIONS, <<NumberOfOptions_as_u8(value)>>)
      [] field = "service_id" -> Write(service_entry.SERVICE_ID, write_u16(value))
      [] field = "instance_id" -> Write(service_entry.INSTANCE_ID, write_u16(value))
      [] field = "major_version" -> Write(service_entry.MAJOR_VERSION, <<value>>)
      [] field = "ttl" -> ServiceEntry_set_ttl(value)
      [] field = "minor_version" -> Write(service_entry.MINOR_VERSION, write_u32(value))

\* the getter of ServiceEntry named <field>
ServiceEntry_get(field, buf) ==
    CASE field = "entry_type" -> At(buf, service_entry.TYPE)[1]
      [] field = "index_first_option_run" -> At(buf, service_entry.INDEX_FIRST_OPTION_RUN)[1]
      [] field = "index_second_option_run" -> At(buf, service_entry.INDEX_SECOND_OPTION_RUN)[1]
      [] field = "number_of_options" -> At(buf, service_entry.NUMBER_OF_OPTIONS)[1]
      [] field = "service_id" -> read_u16(At(buf, service_entry.SERVICE_ID))
      [] field = "instance_id" -> read_u16(At(buf, service_entry.INSTANCE_ID))
      [] field = "major_version" -> At(buf, service_entry.MAJOR_VERSION)[1]
      [] field = "ttl" -> ServiceEntry_ttl(buf)
      [] field = "minor_version" -> read_u32(At(buf, service_entry.MINOR_VERSION))

\* the setter of EventGroupEntry named set_<field>
EventGroupEntry_set(field, value) ==
    CASE field = "entry_type" -> Write(event_group_entry.TYPE, <<value>>)
      [] field = "index_first_option_run" ->
           Write(event_group_entry.INDEX_FIRST_OPTION_RUN, <<value>>)
      [] field = "index_second_option_run" ->
           Write(event_group_entry.INDEX_SECOND_OPTION_RUN, <<value>>)
      [] field = "number_of_options" ->
           Write(event_group_entry.NUMBER_OF_OPTIONS, <<NumberOfOptions_as_u8(value)>>)
      [] field = "service_id" -> Write(event_group_entry.SERVICE_ID, write_u16(value))
      [] field = "instance_id" -> Write(event_group_entry.INSTANCE_ID, write_u16(value))
      [] field = "major_version" -> Write(event_group_entry.MAJOR_VERSION, <<value>>)
      [] field = "ttl" -> EventGroupEntry_set_ttl(value)
      [] field = "reserved_and_counter" ->
           Write(event_group_entry.RESERVED_AND_COUNTER, write_u16(value))
      [] field = "eventgroup_id" -> Write(event_group_entry.EVENTGROUP_ID, write_u16(value))

\* the getter of EventGroupEntry named <field>
EventGroupEntry_get(field, buf) ==
    CASE field = "entry_type" -> At(buf, event_group_entry.TYPE)[1]
      [] field = "index_first_option_run" ->
           At(buf, event_group_entry.INDEX_FIRST_OPTION_RUN)[1]
      [] field = "index_second_option_run" ->
           At(buf, event_group_entry.INDEX_SECOND_OPTION_RUN)[1]
      [] field = "number_of_options" -> At(buf, event_group_entry.NUMBER_OF_OPTIONS)[1]
      [] field = "service_id" -> read_u16(At(buf, event_group_entry.SERVICE_ID))
      [] field = "instance_id" -> read_u16(At(buf, event_group_entry.INSTANCE_ID))
      [] field = "major_version" -> At(buf, event_group_entry.MAJOR_VERSION)[1]
      [] field = "ttl" -> EventGroupEntry_ttl(buf)
      [] field = "reserved_and_counter" ->
           read_u16(At(buf, event_group_entry.RESERVED_AND_COUNTER))
      [] field = "eventgroup_id" -> read_u16(At(buf, event_group_entry.EVENTGROUP_ID))

ServiceEntryFields ==
    {"entry_type", "index_first_option_run", "index_second_option_run",
     "number_of_options", "service_id", "instance_id", "major_version", "ttl",
     "minor_version"}

EventGroupEntryFields ==
    {"entry_type", "index_first_option_run", "index_second_option_run",
     "number_of_options", "service_id", "instance_id", "major_version", "ttl",
     "reserved_and_counter", "eventgroup_id"}

\* the values given to a setter: u8 0x5A and 0xFF, u16 0x1234 and 0xFFFF,
\* u32 0x123456, 0x01000000, 0xABCDEF12 and 0xFFFFFFFF
SetterValues(field) ==
    IF field \in {"ttl", "minor_version"}
    THEN {U32(18, 13398), U32(256, 0), U32(43981, 61202), U32(65535, 65535)}
    ELSE IF field \in {"service_id", "instance_id", "reserved_and_counter", "eventgroup_id"}
         THEN {4660, 65535}
         ELSE {90, 255}

EntrySetterInit ==
    /\ PacketIdle
    /\ entry \in {[NoEntry EXCEPT !.buf = b, !.input = b, !.view = v] :
                    b \in EntryBuffers, v \in {"ServiceEntry", "EventGroupEntry"}}
    /\ option = NoOption
    /\ ser = NoSer
    /\ iter = NoIter
    /\ pure = NoPure
    /\ calls = <<>>

\* the most setter calls made on one entry view
MaxEntrySetterCalls == 2

\* one setter call on the view: the bytes after it
EntrySet(view, field, value, write) ==
    /\ entry.view = view
    /\ Len(calls) < MaxEntrySetterCalls
    /\ LET st == ApplyWrites(Untouched(entry.buf), <<write>>)
       IN  /\ ~st.panic
           /\ entry' = [entry EXCEPT !.buf = st.buf]
           /\ calls' = Append(calls, [op |-> field, arg |-> value, range |-> write.range,
                                      buf |-> st.buf])
    /\ UNCHANGED <<build, buffer, pkt, check_result, last, repr_in, option, ser, iter, pure>>

\* ServiceEntry::set_<field>(value)
ServiceEntrySet ==
    \E field \in ServiceEntryFields : \E value \in SetterValues(field) :
       EntrySet("ServiceEntry", field, value, ServiceEntry_set(field, value))

\* EventGroupEntry::set_<field>(value)
EventGroupEntrySet ==
    \E field \in EventGroupEntryFields : \E value \in SetterValues(field) :
       EntrySet("EventGroupEntry", field, value, EventGroupEntry_set(field, value))

EntrySetterNext ==
    \/ ServiceEntrySet
    \/ EventGroupEntrySet

SpecEntrySetters == EntrySetterInit /\ [][EntrySetterNext]_vars

----------------------------------------------------------------------------
(* Claims about the entry setters, checked under SpecEntrySetters.         *)

\* the bytes of the view before call i
EntryBefore(i) == IF i = 1 THEN entry.input ELSE calls[i - 1].buf

\* the getter of the view
EntryGet(field, buf) ==
    IF entry.view = "ServiceEntry" THEN ServiceEntry_get(field, buf)
    ELSE EventGroupEntry_get(field, buf)

LayoutOfView == IF entry.view = "ServiceEntry" THEN service_entry ELSE event_group_entry

\* the range of the layout that holds a field
RangeOfField(field) ==
    CASE field = "entry_type" -> LayoutOfView.TYPE
      [] field = "index_first_option_run" -> LayoutOfView.INDEX_FIRST_OPTION_RUN
      [] field = "index_second_option_run" -> LayoutOfView.INDEX_SECOND_OPTION_RUN
      [] field = "number_of_options" -> LayoutOfView.NUMBER_OF_OPTIONS
      [] field = "service_id" -> LayoutOfView.SERVICE_ID
      [] field = "instance_id" -> LayoutOfView.INSTANCE_ID
      [] field = "major_version" -> LayoutOfView.MAJOR_VERSION
      [] field = "ttl" -> LayoutOfView.TTL
      [] field = "minor_version" -> LayoutOfView.MINOR_VERSION
      [] field = "reserved_and_counter" -> LayoutOfView.RESERVED_AND_COUNTER
      [] field = "eventgroup_id" -> LayoutOfView.EVENTGROUP_ID

FieldsOfView ==
    IF entry.view = "ServiceEntry" THEN ServiceEntryFields ELSE EventGroupEntryFields

\* what a getter returns for a value given to its setter
Stored(field, value) == IF field = "ttl" THEN U32(value.hi % 256, value.lo) ELSE value

----------------------------------------------------------------------------
(* Claims about the bytes an option Repr's emit leaves, checked under      *)
(* SpecOption.                                                             *)

\* an emit that returned
EmitReturned == option.emitted # "none" /\ option.emit.outcome = "Ok"

\* the wire size of the view of a kind of option
ViewLengthOf(kind) ==
    CASE kind = "ipv4" -> IPv4EndpointOption_LENGTH
      [] kind = "ipv6" -> IPv6EndpointOption_LENGTH
      [] kind = "lb" -> LoadBalancingOption_LENGTH

\* the discriminant of the option type of a kind of Repr
DiscriminantOf(kind) ==
    CASE kind = "ipv4" -> 4
      [] kind = "ipv6" -> 6
      [] kind = "lb" -> 2

C26_EmitReturnsViewLength ==
    EmitReturned =>
        /\ option.emit.returned = BufferLenOf(option.emitted)
        /\ option.emit.returned = ViewLengthOf(option.emitted)
        /\ option.emit.high <= option.emit.returned

\* C27: after emit over any prior contents the flag byte at offset 3 and
\* the reserved byte of an endpoint payload (offset 8, or 20 for IPv6) are 0.
C27_EmitZeroesReservedBytes ==
    EmitReturned =>
        /\ option.buf[4] = 0
        /\ option.emitted = "ipv4" => option.buf[9] = 0
        /\ option.emitted = "ipv6" => option.buf[21] = 0

----------------------------------------------------------------------------
(* Claims about what check_len reads, checked under SpecPacket.            *)

\* the indices of the entries-length field (bytes 4..8) and, where the
\* buffer holds it, of the options-length field (bytes 8+E..12+E)
LengthFieldBytes(buf) ==
    (5..8) \cup
    (IF Len(buf) >= 8 /\ DeclaredE(buf).hi = 0 /\ 12 + DeclaredE(buf).lo <= Len(buf)
     THEN (9 + DeclaredE(buf).lo)..(12 + DeclaredE(buf).lo)
     ELSE {})

\* a buffer of the same length with the same length fields and every
\* other byte replaced
OtherContents(buf, fill) ==
    [i \in 1..Len(buf) |-> IF i \in LengthFieldBytes(buf) THEN buf[i] ELSE fill]

\* C28: the result of new_checked is the same for every buffer of the same
\* length with the same two length fields, whatever the other bytes are;
\* after Ok, flags(), entries_array() and options_array() return the other
\* bytes as they are.
C28_CheckLenReadsLengthFieldsOnly ==
    pkt = "checked" =>
        \A fill \in {0, 255} :
           LET other == OtherContents(buffer, fill)
           IN  /\ check_len(other) = check_result
               /\ check_result = "Ok" =>
                    /\ flags(other) = Val(Num(fill))
                    /\ entries_array(other).panic = entries_array(buffer).panic
                    /\ options_array(other).panic = options_array(buffer).panic
                    /\ ~entries_array(other).panic =>
                         /\ Len(entries_array(other).bytes) = Len(entries_array(buffer).bytes)
                         /\ \A i \in 1..Len(entries_array(other).bytes) :
                               entries_array(other).bytes[i] = fill
                    /\ ~options_array(other).panic =>
                         /\ Len(options_array(other).bytes) = Len(options_array(buffer).bytes)
                         /\ \A i \in 1..Len(options_array(other).bytes) :
                               options_array(other).bytes[i] = fill

----------------------------------------------------------------------------
(* Claims about the cursor of ConfigEntryIter, checked under SpecConfig.   *)

\* a second iterator over the same data after n calls of next:
\* [pos, items], each item with the cursor its call started at
RECURSIVE SecondIterator(_, _)
SecondIterator(data, n) ==
    IF n = 0 THEN [pos |-> 0, items |-> <<>>]
    ELSE LET before == SecondIterator(data, n - 1)
             r == ConfigEntryIter_next(data, before.pos)
         IN  [pos |-> r.pos,
              items |-> Append(before.items, [r.item EXCEPT !.at = before.pos])]

\* C29: for every input and after any number of calls of next, the cursor
\* is within 0..data.len() and has not moved back, every index next reads
\* or slices is inside data, the data is what the iterator was made over,
\* and a second iterator over the same data yields the same items.
C29_CursorStaysInsideData ==
    iter.phase = "made" =>
        /\ 0 <= iter.pos /\ iter.pos <= Len(iter.data)
        /\ \A i \in 1..Len(iter.items) :
              LET at == iter.items[i].at
                  r == ConfigEntryIter_next(iter.data, at)
                  following == IF i = Len(iter.items) THEN iter.pos
                               ELSE iter.items[i + 1].at
              IN  /\ 0 <= at /\ at <= following
                  /\ following = r.pos
                  /\ r.reads \subseteq 0..(Len(iter.data) - 1)
                  /\ r.pos <= Len(iter.data)
        /\ ser.phase = "done" => iter.data = SubSeq(ser.result.buf, 1, ser.result.pos)
        /\ SecondIterator(iter.data, Len(iter.items)) =
             [pos |-> iter.pos, items |-> iter.items]

\* b"\x03k" (a length byte past the end) after three calls of next:
\* LengthOverflow at 0, then the 'k' read as a length byte, then
\* UnexpectedEnd with the cursor at data.len()
C29_Witness ==
    /\ iter.phase = "made"
    /\ iter.data = <<3, 107>>
    /\ Len(iter.items) = 3
    /\ iter.items[1].err = "LengthOverflow" /\ iter.items[1].at = 0
    /\ iter.items[2].err = "LengthOverflow" /\ iter.items[2].at = 1
    /\ iter.items[3].err = "UnexpectedEnd" /\ iter.items[3].at = 2
    /\ iter.pos = 2

====
